---------------------------- MODULE Spec2Model ----------------------------
(***************************************************************************)
(* A model of the link-title scripts of opendisruption.com (src/scripts). *)
(*                                                                         *)
(* A Python str is a sequence of one-character strings, so that substring *)
(* tests, regular expressions, str.replace, str.title and the length      *)
(* budgets are computed the way the code computes them.  The one          *)
(* character U+2014 (em dash) is written EmDash.                          *)
(***************************************************************************)
EXTENDS Integers, Sequences, FiniteSets, TLC

VARIABLES
    pc,             \* where the modelled run stands
    call,           \* the operation invoked and its arguments
    ret,            \* what the operation returned
    log,            \* the I/O the run performed, in order: requests, sleeps, file writes
    unique_urls,    \* format_urls_to_markdown*: the de-duplicated batch
    markdown_links, \* format_urls_to_markdown*: the entries produced so far
    doc,            \* the weekly markdown file: a sequence of lines
    content_len,    \* the bounded read of a response body: len(content) so far
    weekly_dir      \* the files of weekly-links/: the text of each, by name

\* no file
NoFiles == [name \in {} |-> <<>>]

vars == <<pc, call, ret, log, unique_urls, markdown_links, doc, content_len, weekly_dir>>

\* None is a sequence that no str equals: its one element is not a character
None == <<"None">>
EmDash == "em-dash"

---------------------------------------------------------------------------
(* Python string primitives                                                *)

Digits == {"0", "1", "2", "3", "4", "5", "6", "7", "8", "9"}

IsUpper(c) == c \in {"A", "B", "C", "D", "E", "F", "G", "H", "I", "J", "K", "L", "M", "N", "O", "P", "Q", "R", "S", "T", "U", "V", "W", "X", "Y", "Z"}
IsLower(c) == c \in {"a", "b", "c", "d", "e", "f", "g", "h", "i", "j", "k", "l", "m", "n", "o", "p", "q", "r", "s", "t", "u", "v", "w", "x", "y", "z"}
IsCased(c) == IsUpper(c) \/ IsLower(c)
IsSpace(c) == c \in {" ", "\t", "\n"}

LowerChar(c) ==
    CASE c = "A" -> "a" [] c = "B" -> "b" [] c = "C" -> "c" [] c = "D" -> "d" [] c = "E" -> "e" [] c = "F" -> "f"
         [] c = "G" -> "g" [] c = "H" -> "h" [] c = "I" -> "i" [] c = "J" -> "j" [] c = "K" -> "k" [] c = "L" -> "l"
         [] c = "M" -> "m" [] c = "N" -> "n" [] c = "O" -> "o" [] c = "P" -> "p" [] c = "Q" -> "q" [] c = "R" -> "r"
         [] c = "S" -> "s" [] c = "T" -> "t" [] c = "U" -> "u" [] c = "V" -> "v" [] c = "W" -> "w" [] c = "X" -> "x"
         [] c = "Y" -> "y" [] c = "Z" -> "z"
         [] OTHER -> c
UpperChar(c) ==
    CASE c = "a" -> "A" [] c = "b" -> "B" [] c = "c" -> "C" [] c = "d" -> "D" [] c = "e" -> "E" [] c = "f" -> "F"
         [] c = "g" -> "G" [] c = "h" -> "H" [] c = "i" -> "I" [] c = "j" -> "J" [] c = "k" -> "K" [] c = "l" -> "L"
         [] c = "m" -> "M" [] c = "n" -> "N" [] c = "o" -> "O" [] c = "p" -> "P" [] c = "q" -> "Q" [] c = "r" -> "R"
         [] c = "s" -> "S" [] c = "t" -> "T" [] c = "u" -> "U" [] c = "v" -> "V" [] c = "w" -> "W" [] c = "x" -> "X"
         [] c = "y" -> "Y" [] c = "z" -> "Z"
         [] OTHER -> c

\* str.lower()
Lower(s) == [i \in 1..Len(s) |-> LowerChar(s[i])]

\* str.title(): a cased character is upper-cased after an uncased one, lower-cased otherwise
TitleCase(s) ==
    [i \in 1..Len(s) |->
        IF i = 1 \/ ~IsCased(s[i - 1]) THEN UpperChar(s[i]) ELSE LowerChar(s[i])]

\* s[i:].startswith(p), i counted from 1
StartsWithAt(s, i, p) ==
    /\ i + Len(p) - 1 <= Len(s)
    /\ SubSeq(s, i, i + Len(p) - 1) = p

StartsWith(s, p) == StartsWithAt(s, 1, p)

\* s.endswith(p)
EndsWith(s, p) ==
    /\ Len(p) <= Len(s)
    /\ SubSeq(s, Len(s) - Len(p) + 1, Len(s)) = p

\* p in s
IsSubstr(p, s) == \E i \in 1..(Len(s) - Len(p) + 1) : StartsWithAt(s, i, p)

\* s.find(p) counted from 1, 0 when absent
Find(p, s) ==
    IF IsSubstr(p, s)
    THEN CHOOSE i \in 1..(Len(s) - Len(p) + 1) :
            /\ StartsWithAt(s, i, p)
            /\ \A j \in 1..(i - 1) : ~StartsWithAt(s, j, p)
    ELSE 0

RECURSIVE ReplaceFrom(_, _, _, _)
ReplaceFrom(s, i, old, new) ==
    IF i > Len(s) THEN <<>>
    ELSE IF StartsWithAt(s, i, old) THEN new \o ReplaceFrom(s, i + Len(old), old, new)
    ELSE <<s[i]>> \o ReplaceFrom(s, i + 1, old, new)

\* s.replace(old, new), old not empty
Replace(s, old, new) == ReplaceFrom(s, 1, old, new)

\* s.strip()
Strip(s) ==
    IF \A i \in 1..Len(s) : IsSpace(s[i]) THEN <<>>
    ELSE LET a == CHOOSE i \in 1..Len(s) : ~IsSpace(s[i]) /\ \A j \in 1..(i - 1) : IsSpace(s[j])
             b == CHOOSE i \in 1..Len(s) : ~IsSpace(s[i]) /\ \A j \in (i + 1)..Len(s) : IsSpace(s[j])
         IN SubSeq(s, a, b)

\* the index of the first "/" after position i, Len(s) + 1 when there is none
NextSlash(s, i) ==
    IF \E j \in (i + 1)..Len(s) : s[j] = "/"
    THEN CHOOSE j \in (i + 1)..Len(s) : s[j] = "/" /\ \A k \in (i + 1)..(j - 1) : s[k] # "/"
    ELSE Len(s) + 1

\* the end of the maximal run of digits that starts at i (i - 1 when s[i] is no digit)
DigitsEnd(s, i) ==
    IF i <= Len(s) /\ s[i] \in Digits
    THEN CHOOSE j \in i..Len(s) :
            /\ \A k \in i..j : s[k] \in Digits
            /\ (j = Len(s) \/ s[j + 1] \notin Digits)
    ELSE i - 1

Min(S) == CHOOSE x \in S : \A y \in S : x <= y

---------------------------------------------------------------------------
(* urllib.parse.urlparse(url).netloc, as get_domain uses it                *)

IsSchemeChar(c) == IsCased(c) \/ c \in Digits \/ c \in {"+", "-", "."}

\* what follows "scheme:" (the whole url when it has no valid scheme)
AfterScheme(url) ==
    LET i == Find(<<":">>, url)
    IN IF i > 1 /\ IsCased(url[1]) /\ \A k \in 1..(i - 1) : IsSchemeChar(url[k])
       THEN SubSeq(url, i + 1, Len(url))
       ELSE url

Netloc(url) ==
    LET Of(rest) ==
            IF StartsWith(rest, <<"/", "/">>)
            THEN LET ends == {j \in 3..Len(rest) : rest[j] \in {"/", "?", "#"}}
                 IN SubSeq(rest, 3, (IF ends = {} THEN Len(rest) + 1 ELSE Min(ends)) - 1)
            ELSE <<>>
    IN Of(AfterScheme(url))

\* urlsplit raises ValueError("Invalid IPv6 URL") when the netloc holds one of
\* "[" and "]" without the other
Unbalanced(netloc) ==
    (\E k \in 1..Len(netloc) : netloc[k] = "[") # (\E k \in 1..Len(netloc) : netloc[k] = "]")

UrlParseRaises(url) == Unbalanced(Netloc(url))

\* get_domain: "" when urlparse raises
get_domain(url) ==
    LET Of(netloc) == IF Unbalanced(netloc) THEN <<>> ELSE Lower(netloc)
    IN Of(Netloc(url))

---------------------------------------------------------------------------
(* The regular expressions of the resolvers                                *)

\* re.search(r"/([^/]+)/status/", url): the positions where a match starts
StatusStarts(url) ==
    {i \in 1..Len(url) :
        /\ url[i] = "/"
        /\ NextSlash(url, i) > i + 1
        /\ StartsWithAt(url, NextSlash(url, i), <<"/","s","t","a","t","u","s","/">>)}

\* group(1) of the leftmost match, None without a match
StatusUsername(url) ==
    IF StatusStarts(url) = {} THEN None
    ELSE LET Group(i) == SubSeq(url, i + 1, NextSlash(url, i) - 1)
         IN Group(Min(StatusStarts(url)))

\* re.search(r"/(\d+\.\d+)", url)
PaperIdStarts(url) ==
    {i \in 1..Len(url) :
        /\ url[i] = "/"
        /\ DigitsEnd(url, i + 1) >= i + 1
        /\ DigitsEnd(url, i + 1) < Len(url)
        /\ url[DigitsEnd(url, i + 1) + 1] = "."
        /\ DigitsEnd(url, DigitsEnd(url, i + 1) + 2) >= DigitsEnd(url, i + 1) + 2}

PaperId(url) ==
    IF PaperIdStarts(url) = {} THEN None
    ELSE LET Group(i) == SubSeq(url, i + 1, DigitsEnd(url, DigitsEnd(url, i + 1) + 2))
         IN Group(Min(PaperIdStarts(url)))

\* re.search(r"github\.com/([^/]+/[^/]+)", url)
GithubStarts(url) ==
    {i \in 1..Len(url) :
        /\ StartsWithAt(url, i, <<"g","i","t","h","u","b",".","c","o","m","/">>)
        /\ LET a == i + 10              \* the "/" that ends github.com/
               b == NextSlash(url, a)   \* the "/" between owner and repository
           IN /\ b > a + 1
              /\ b <= Len(url)
              /\ NextSlash(url, b) > b + 1}

GithubRepo(url) ==
    IF GithubStarts(url) = {} THEN None
    ELSE LET Group(i) == SubSeq(url, i + 11, NextSlash(url, NextSlash(url, i + 10)) - 1)
         IN Group(Min(GithubStarts(url)))

\* re.search(r"huggingface\.co/([^/]+)", url)
HuggingfaceStarts(url) ==
    {i \in 1..Len(url) :
        /\ StartsWithAt(url, i, <<"h","u","g","g","i","n","g","f","a","c","e",".","c","o","/">>)
        /\ NextSlash(url, i + 14) > i + 15}

HuggingfaceModel(url) ==
    IF HuggingfaceStarts(url) = {} THEN None
    ELSE LET Group(i) == SubSeq(url, i + 15, NextSlash(url, i + 14) - 1)
         IN Group(Min(HuggingfaceStarts(url)))

HttpPrefixes == {<<"h","t","t","p",":","/","/">>, <<"h","t","t","p","s",":","/","/">>}
WwwPrefixes == {<<>>, <<"w","w","w",".">>}

\* re.match(URL_PATTERNS["twitter"], url)
MatchesTwitterPattern(url) ==
    \E h \in HttpPrefixes, w \in WwwPrefixes, d \in {<<"t","w","i","t","t","e","r",".","c","o","m">>, <<"x",".","c","o","m">>} :
        LET p == h \o w \o d
            a == Len(p) + 1             \* the "/" after the host
        IN /\ StartsWith(url, p \o <<"/">>)
           /\ NextSlash(url, a) > a + 1
           /\ StartsWithAt(url, NextSlash(url, a), <<"/","s","t","a","t","u","s","/">>)
           /\ DigitsEnd(url, NextSlash(url, a) + 8) >= NextSlash(url, a) + 8

\* re.match(URL_PATTERNS["arxiv"], url)
MatchesArxivPattern(url) ==
    \E h \in HttpPrefixes, k \in {<<"a","b","s">>, <<"p","d","f">>} :
        LET p == h \o <<"a","r","x","i","v",".","o","r","g","/">> \o k      \* the "/" of /(\d+\.\d+) follows
        IN /\ StartsWith(url, p \o <<"/">>)
           /\ (Len(p) + 1) \in PaperIdStarts(url)

\* re.match(URL_PATTERNS["arxiv_pdf"], url)
MatchesArxivPdfPattern(url) ==
    \E h \in HttpPrefixes :
        LET p == h \o <<"a","r","x","i","v",".","o","r","g","/","p","d","f">>
        IN /\ StartsWith(url, p \o <<"/">>)
           /\ (Len(p) + 1) \in PaperIdStarts(url)

\* re.match(URL_PATTERNS["github"], url)
MatchesGithubPattern(url) ==
    \E h \in HttpPrefixes :
        /\ StartsWith(url, h \o <<"g","i","t","h","u","b",".","c","o","m","/">>)
        /\ (Len(h) + 1) \in GithubStarts(url)

\* re.match(URL_PATTERNS["youtube"], url)
MatchesYoutubePattern(url) ==
    \E h \in HttpPrefixes, w \in WwwPrefixes :
        LET p == h \o w \o <<"y","o","u","t","u","b","e",".","c","o","m","/","w","a","t","c","h","?","v","=">>
        IN /\ StartsWith(url, p)
           /\ Len(url) > Len(p)
           /\ url[Len(p) + 1] # "&"

\* re.match(URL_PATTERNS["huggingface"], url)
MatchesHuggingfacePattern(url) ==
    \E h \in HttpPrefixes :
        /\ StartsWith(url, h \o <<"h","u","g","g","i","n","g","f","a","c","e",".","c","o","/">>)
        /\ (Len(h) + 1) \in HuggingfaceStarts(url)


---------------------------------------------------------------------------
(* The lookup tables.  A dict is the sequence of its <<key, value>> pairs  *)
(* in insertion order, which is the order a loop over .items() visits.     *)

ENHANCED_CURATED_PATTERNS == <<
    <<<<"c","h","a","t","g","p","t",".","c","o","m","/","a","t","l","a","s">>, <<"O","p","e","n","A","I"," ","A","t","l","a","s"," ","-"," ","A","I"," ","W","e","b"," ","B","r","o","w","s","e","r">>>>,
    <<<<"o","p","e","n","a","i",".","c","o","m","/","i","n","d","e","x","/","i","n","t","r","o","d","u","c","i","n","g","-","c","h","a","t","g","p","t","-","a","t","l","a","s">>, <<"O","p","e","n","A","I",":"," ","I","n","t","r","o","d","u","c","i","n","g"," ","C","h","a","t","G","P","T"," ","A","t","l","a","s">>>>,
    <<<<"a","n","t","h","r","o","p","i","c",".","c","o","m","/","n","e","w","s","/","s","k","i","l","l","s">>, <<"A","n","t","h","r","o","p","i","c",":"," ","A","g","e","n","t"," ","S","k","i","l","l","s"," ","A","n","n","o","u","n","c","e","m","e","n","t">>>>,
    <<<<"a","n","t","h","r","o","p","i","c",".","c","o","m","/","e","n","g","i","n","e","e","r","i","n","g","/","e","q","u","i","p","p","i","n","g","-","a","g","e","n","t","s">>, <<"A","n","t","h","r","o","p","i","c",":"," ","E","q","u","i","p","p","i","n","g"," ","A","g","e","n","t","s"," ","f","o","r"," ","t","h","e"," ","R","e","a","l"," ","W","o","r","l","d">>>>,
    <<<<"a","n","t","h","r","o","p","i","c",".","c","o","m","/","n","e","w","s","/","s","t","a","t","e","m","e","n","t","-","d","a","r","i","o","-","a","m","o","d","e","i">>, <<"A","n","t","h","r","o","p","i","c",":"," ","D","a","r","i","o"," ","A","m","o","d","e","i"," ","o","n"," ","A","m","e","r","i","c","a","n"," ","A","I"," ","L","e","a","d","e","r","s","h","i","p">>>>,
    <<<<"g","i","t","h","u","b",".","c","o","m","/","a","n","t","g","r","o","u","p","/","d","i","t","t","o","-","t","a","l","k","i","n","g","h","e","a","d">>, <<"G","i","t","H","u","b",":"," ","D","i","t","t","o"," ","T","a","l","k","i","n","g"," ","H","e","a","d"," ","(","A","I"," ","V","i","d","e","o"," ","G","e","n","e","r","a","t","i","o","n",")">>>>,
    <<<<"g","i","t","h","u","b",".","c","o","m","/","T","e","n","c","e","n","t","-","H","u","n","y","u","a","n","/","H","u","n","y","u","a","n","W","o","r","l","d","-","M","i","r","r","o","r">>, <<"G","i","t","H","u","b",":"," ","H","u","n","y","u","a","n","W","o","r","l","d"," ","(","T","e","n","c","e","n","t"," ","A","I"," ","W","o","r","l","d"," ","M","o","d","e","l",")">>>>,
    <<<<"s","u","p","e","r","i","n","t","e","l","l","i","g","e","n","c","e","-","s","t","a","t","e","m","e","n","t",".","o","r","g">>, <<"S","t","a","t","e","m","e","n","t"," ","o","n"," ","S","u","p","e","r","i","n","t","e","l","l","i","g","e","n","c","e">>>>,
    <<<<"m","e","t","a","p","h","y","s","i","c",".","a","i","/","s","t","u","d","i","o","s">>, <<"M","e","t","a","p","h","y","s","i","c"," ","S","t","u","d","i","o","s"," ","-"," ","A","I"," ","V","F","X"," ","I","n","n","o","v","a","t","i","o","n">>>>,
    <<<<"a","r","t","i","f","i","c","i","a","l","a","n","a","l","y","s","i","s",".","a","i","/","m","e","d","i","a","/","s","u","r","v","e","y","-","2","0","2","5">>, <<"A","r","t","i","f","i","c","i","a","l"," ","A","n","a","l","y","s","i","s",":"," ","2","0","2","5"," ","G","e","n","e","r","a","t","i","v","e"," ","M","e","d","i","a"," ","S","u","r","v","e","y">>>>,
    <<<<"d","e","e","p","s","e","e","k",".","a","i","/","b","l","o","g","/","d","e","e","p","s","e","e","k","-","o","c","r">>, <<"D","e","e","p","S","e","e","k",":"," ","O","C","R"," ","C","o","n","t","e","x","t"," ","C","o","m","p","r","e","s","s","i","o","n">>>>,
    <<<<"l","e","a","r","n","y","o","u","r","w","a","y",".","w","i","t","h","g","o","o","g","l","e",".","c","o","m">>, <<"G","o","o","g","l","e",":"," ","L","e","a","r","n"," ","Y","o","u","r"," ","W","a","y"," ","A","I"," ","L","e","a","r","n","i","n","g"," ","P","l","a","t","f","o","r","m">>>>,
    <<<<"t","e","c","h","c","r","u","n","c","h",".","c","o","m","/","2","0","2","5","/","1","0","/","2","1","/","n","e","t","f","l","i","x","-","g","o","e","s","-","a","l","l","-","i","n">>, <<"T","e","c","h","C","r","u","n","c","h",":"," ","N","e","t","f","l","i","x"," ","G","o","e","s"," ","A","l","l","-","I","n"," ","o","n"," ","G","e","n","e","r","a","t","i","v","e"," ","A","I">>>>,
    <<<<"z","d","n","e","t",".","c","o","m","/","a","r","t","i","c","l","e","/","a","d","o","b","e","-","m","i","g","h","t","v","e","-","j","u","s","t","-","s","o","l","v","e","d">>, <<"Z","D","N","e","t",":"," ","A","d","o","b","e"," ","S","o","l","v","e","s"," ","G","e","n","e","r","a","t","i","v","e"," ","A","I"," ","L","e","g","a","l"," ","R","i","s","k","s">>>>,
    <<<<"b","l","o","g",".","g","o","o","g","l","e","/","t","e","c","h","n","o","l","o","g","y","/","r","e","s","e","a","r","c","h","/","q","u","a","n","t","u","m","-","e","c","h","o","e","s">>, <<"G","o","o","g","l","e"," ","R","e","s","e","a","r","c","h",":"," ","Q","u","a","n","t","u","m"," ","E","c","h","o","e","s"," ","W","i","l","l","o","w"," ","A","d","v","a","n","t","a","g","e">>>>
>>

SAFE_DOMAINS == {
    <<"a","a","a","i",".","o","r","g">>,
    <<"a","c","m",".","o","r","g">>,
    <<"a","i",".","g","o","o","g","l","e">>,
    <<"a","n","t","h","r","o","p","i","c",".","c","o","m">>,
    <<"a","r","s","t","e","c","h","n","i","c","a",".","c","o","m">>,
    <<"a","r","t","i","f","i","c","i","a","l","i","n","t","e","l","l","i","g","e","n","c","e","-","n","e","w","s",".","c","o","m">>,
    <<"a","r","x","i","v",".","o","r","g">>,
    <<"b","e","r","k","e","l","e","y",".","e","d","u">>,
    <<"b","i","t","b","u","c","k","e","t",".","o","r","g">>,
    <<"b","l","o","g",".","g","o","o","g","l","e">>,
    <<"b","l","o","o","m","b","e","r","g",".","c","o","m">>,
    <<"b","r","o","o","k","i","n","g","s",".","e","d","u">>,
    <<"c","a","l","t","e","c","h",".","e","d","u">>,
    <<"c","a","m","b","r","i","d","g","e",".","e","d","u">>,
    <<"c","e","l","l",".","c","o","m">>,
    <<"c","h","a","t","g","p","t",".","c","o","m">>,
    <<"c","l","a","u","d","e",".","a","i">>,
    <<"c","l","o","u","d",".","g","o","o","g","l","e",".","c","o","m">>,
    <<"c","m","u",".","e","d","u">>,
    <<"c","n","e","t",".","c","o","m">>,
    <<"c","o","h","e","r","e",".","a","i">>,
    <<"d","e","e","p","m","i","n","d",".","c","o","m">>,
    <<"d","e","e","p","m","i","n","d",".","g","o","o","g","l","e">>,
    <<"d","e","v",".","t","o">>,
    <<"e","l","s","e","v","i","e","r",".","c","o","m">>,
    <<"e","n","g","a","d","g","e","t",".","c","o","m">>,
    <<"f","o","r","b","e","s",".","c","o","m">>,
    <<"f","o","r","t","u","n","e",".","c","o","m">>,
    <<"g","i","t","h","u","b",".","c","o","m">>,
    <<"g","i","t","l","a","b",".","c","o","m">>,
    <<"g","o","o","g","l","e",".","c","o","m">>,
    <<"h","a","r","v","a","r","d",".","e","d","u">>,
    <<"h","u","g","g","i","n","g","f","a","c","e",".","c","o">>,
    <<"i","c","l","r",".","c","c">>,
    <<"i","c","m","l",".","c","c">>,
    <<"i","e","e","e",".","o","r","g">>,
    <<"m","e","d","i","u","m",".","c","o","m">>,
    <<"m","i","d","j","o","u","r","n","e","y",".","c","o","m">>,
    <<"m","i","s","t","r","a","l",".","a","i">>,
    <<"m","i","t",".","e","d","u">>,
    <<"n","a","t","u","r","e",".","c","o","m">>,
    <<"n","b","e","r",".","o","r","g">>,
    <<"n","e","u","r","i","p","s",".","c","c">>,
    <<"n","y","t","i","m","e","s",".","c","o","m">>,
    <<"o","p","e","n","a","i",".","c","o","m">>,
    <<"o","x","f","o","r","d",".","e","d","u">>,
    <<"p","a","i","r",".","w","i","t","h","g","o","o","g","l","e",".","c","o","m">>,
    <<"p","a","p","e","r","s","w","i","t","h","c","o","d","e",".","c","o","m">>,
    <<"p","e","r","p","l","e","x","i","t","y",".","a","i">>,
    <<"p","r","i","n","c","e","t","o","n",".","e","d","u">>,
    <<"r","a","n","d",".","o","r","g">>,
    <<"r","e","p","l","i","c","a","t","e",".","c","o","m">>,
    <<"r","e","s","e","a","r","c","h",".","g","o","o","g","l","e">>,
    <<"r","e","u","t","e","r","s",".","c","o","m">>,
    <<"r","u","n","w","a","y","m","l",".","c","o","m">>,
    <<"s","c","h","o","l","a","r",".","g","o","o","g","l","e",".","c","o","m">>,
    <<"s","c","i","e","n","c","e",".","o","r","g">>,
    <<"s","l","a","s","h","d","o","t",".","o","r","g">>,
    <<"s","p","r","i","n","g","e","r",".","c","o","m">>,
    <<"s","t","a","b","i","l","i","t","y",".","a","i">>,
    <<"s","t","a","c","k","e","x","c","h","a","n","g","e",".","c","o","m">>,
    <<"s","t","a","c","k","o","v","e","r","f","l","o","w",".","c","o","m">>,
    <<"s","t","a","n","f","o","r","d",".","e","d","u">>,
    <<"s","u","b","s","t","a","c","k",".","c","o","m">>,
    <<"t","e","c","h","c","r","u","n","c","h",".","c","o","m">>,
    <<"t","h","e","v","e","r","g","e",".","c","o","m">>,
    <<"t","o","g","e","t","h","e","r",".","a","i">>,
    <<"v","e","n","t","u","r","e","b","e","a","t",".","c","o","m">>,
    <<"w","a","s","h","i","n","g","t","o","n","p","o","s","t",".","c","o","m">>,
    <<"w","i","r","e","d",".","c","o","m">>,
    <<"w","s","j",".","c","o","m">>,
    <<"y","a","l","e",".","e","d","u">>,
    <<"z","d","n","e","t",".","c","o","m">>
}

AVOID_DOMAINS == {
    <<"f","a","c","e","b","o","o","k",".","c","o","m">>,
    <<"i","n","s","t","a","g","r","a","m",".","c","o","m">>,
    <<"l","i","n","k","e","d","i","n",".","c","o","m">>,
    <<"r","e","d","d","i","t",".","c","o","m">>,
    <<"t","i","k","t","o","k",".","c","o","m">>,
    <<"t","w","i","t","t","e","r",".","c","o","m">>,
    <<"x",".","c","o","m">>,
    <<"y","o","u","t","u",".","b","e">>,
    <<"y","o","u","t","u","b","e",".","c","o","m">>
}

ai_company_domains == {
    <<"o","p","e","n","a","i",".","c","o","m">>,
    <<"a","n","t","h","r","o","p","i","c",".","c","o","m">>,
    <<"c","h","a","t","g","p","t",".","c","o","m">>,
    <<"d","e","e","p","m","i","n","d",".","g","o","o","g","l","e">>,
    <<"h","u","g","g","i","n","g","f","a","c","e",".","c","o">>,
    <<"s","t","a","b","i","l","i","t","y",".","a","i">>,
    <<"r","u","n","w","a","y","m","l",".","c","o","m">>,
    <<"r","e","p","l","i","c","a","t","e",".","c","o","m">>,
    <<"t","o","g","e","t","h","e","r",".","a","i">>,
    <<"c","o","h","e","r","e",".","a","i">>,
    <<"m","i","s","t","r","a","l",".","a","i">>,
    <<"p","e","r","p","l","e","x","i","t","y",".","a","i">>,
    <<"c","l","a","u","d","e",".","a","i">>,
    <<"d","e","e","p","s","e","e","k",".","a","i">>,
    <<"m","e","t","a","p","h","y","s","i","c",".","a","i">>,
    <<"a","r","t","i","f","i","c","i","a","l","a","n","a","l","y","s","i","s",".","a","i">>
}

DOMAIN_TITLES == <<
    <<<<"s","t","a","t","e","o","f",".","a","i">>, <<"S","t","a","t","e"," ","o","f"," ","A","I"," ","2","0","2","5"," ","R","e","p","o","r","t">>>>,
    <<<<"a","n","t","h","r","o","p","i","c",".","c","o","m">>, <<"A","n","t","h","r","o","p","i","c">>>>,
    <<<<"a","r","x","i","v",".","o","r","g">>, <<"a","r","X","i","v">>>>,
    <<<<"g","i","t","h","u","b",".","c","o","m">>, <<"G","i","t","H","u","b">>>>,
    <<<<"h","u","g","g","i","n","g","f","a","c","e",".","c","o">>, <<"H","u","g","g","i","n","g"," ","F","a","c","e">>>>,
    <<<<"g","o","o","g","l","e",".","c","o","m">>, <<"G","o","o","g","l","e">>>>,
    <<<<"d","e","e","p","m","i","n","d",".","g","o","o","g","l","e">>, <<"G","o","o","g","l","e"," ","D","e","e","p","M","i","n","d">>>>,
    <<<<"o","p","e","n","a","i",".","c","o","m">>, <<"O","p","e","n","A","I">>>>,
    <<<<"b","r","o","o","k","i","n","g","s",".","e","d","u">>, <<"B","r","o","o","k","i","n","g","s">>>>,
    <<<<"f","o","r","t","u","n","e",".","c","o","m">>, <<"F","o","r","t","u","n","e">>>>,
    <<<<"y","a","l","e",".","e","d","u">>, <<"Y","a","l","e">>>>,
    <<<<"d","a","l","l","a","s","f","e","d",".","o","r","g">>, <<"D","a","l","l","a","s"," ","F","e","d">>>>,
    <<<<"c","l","o","u","d",".","g","o","o","g","l","e",".","c","o","m">>, <<"G","o","o","g","l","e"," ","C","l","o","u","d">>>>,
    <<<<"p","a","i","r",".","w","i","t","h","g","o","o","g","l","e",".","c","o","m">>, <<"G","o","o","g","l","e"," ","P","A","I","R">>>>,
    <<<<"l","a","y","o","f","f","s",".","f","y","i">>, <<"L","a","y","o","f","f","s",".","f","y","i">>>>,
    <<<<"t","r","u","e","u","p",".","i","o">>, <<"T","r","u","e","U","p",".","i","o">>>>,
    <<<<"w","a","r","n","t","r","a","c","k","e","r",".","c","o","m">>, <<"W","a","r","n","T","r","a","c","k","e","r">>>>,
    <<<<"w","a","v","e","s","p","e","e","d",".","a","i">>, <<"W","a","v","e","S","p","e","e","d",".","a","i">>>>,
    <<<<"m","o","o","n","d","r","e","a","m",".","a","i">>, <<"M","o","o","n","d","r","e","a","m">>>>,
    <<<<"h","i","g","g","s","f","i","e","l","d",".","a","i">>, <<"H","i","g","g","s","f","i","e","l","d",".","a","i">>>>,
    <<<<"h","u","i","x","i","a","n","g",".","b","a","i","d","u",".","c","o","m">>, <<"B","a","i","d","u"," ","H","u","i","x","i","a","n","g">>>>,
    <<<<"r","u","n","w","a","r","e",".","a","i">>, <<"R","u","n","w","a","r","e",".","a","i">>>>,
    <<<<"s","t","r","e","a","m","l","a","k","e",".","a","i">>, <<"S","t","r","e","a","m","L","a","k","e",".","a","i">>>>,
    <<<<"s","c","i","s","p","a","c","e",".","c","o","m">>, <<"S","c","i","S","p","a","c","e">>>>,
    <<<<"e","x","a",".","a","i">>, <<"E","x","a",".","a","i">>>>,
    <<<<"c","r","e","a","t","i","v","e","b","l","o","q",".","c","o","m">>, <<"C","r","e","a","t","i","v","e"," ","B","l","o","q">>>>,
    <<<<"s","t","a","b","l","e","-","d","i","f","f","u","s","i","o","n","-","a","r","t",".","c","o","m">>, <<"S","t","a","b","l","e"," ","D","i","f","f","u","s","i","o","n"," ","A","r","t">>>>,
    <<<<"v","i","d","e","o","-","z","e","r","o","-","s","h","o","t",".","g","i","t","h","u","b",".","i","o">>, <<"V","i","d","e","o"," ","Z","e","r","o","-","S","h","o","t">>>>,
    <<<<"k","a","n","g","l","i","a","o","9","2","9",".","g","i","t","h","u","b",".","i","o">>, <<"P","u","f","f","i","n"," ","A","I"," ","P","r","o","j","e","c","t">>>>,
    <<<<"p","u","b","l","i","s","h",".","o","b","s","i","d","i","a","n",".","m","d">>, <<"O","b","s","i","d","i","a","n">>>>
>>

USERNAME_TO_DISPLAY_NAME == <<
    <<<<"o","p","e","n","a","i">>, <<"O","p","e","n","A","I">>>>,
    <<<<"o","p","e","n","a","i","d","e","v","s">>, <<"O","p","e","n","A","I">>>>,
    <<<<"a","n","t","h","r","o","p","i","c">>, <<"A","n","t","h","r","o","p","i","c">>>>,
    <<<<"g","o","o","g","l","e","l","a","b","s">>, <<"G","o","o","g","l","e"," ","L","a","b","s">>>>,
    <<<<"g","o","o","g","l","e","a","i">>, <<"G","o","o","g","l","e"," ","A","I">>>>,
    <<<<"d","e","e","p","m","i","n","d">>, <<"D","e","e","p","M","i","n","d">>>>,
    <<<<"b","a","i","d","u","_","i","n","c">>, <<"B","a","i","d","u">>>>,
    <<<<"h","u","g","g","i","n","g","f","a","c","e">>, <<"H","u","g","g","i","n","g"," ","F","a","c","e">>>>,
    <<<<"r","u","n","w","a","y","m","l">>, <<"R","u","n","w","a","y">>>>,
    <<<<"s","t","a","b","i","l","i","t","y","a","i">>, <<"S","t","a","b","i","l","i","t","y"," ","A","I">>>>,
    <<<<"m","i","d","j","o","u","r","n","e","y">>, <<"M","i","d","j","o","u","r","n","e","y">>>>,
    <<<<"r","e","p","l","i","c","a","t","e">>, <<"R","e","p","l","i","c","a","t","e">>>>,
    <<<<"t","o","g","e","t","h","e","r","_","a","i">>, <<"T","o","g","e","t","h","e","r"," ","A","I">>>>,
    <<<<"c","o","h","e","r","e">>, <<"C","o","h","e","r","e">>>>,
    <<<<"m","i","s","t","r","a","l","a","i">>, <<"M","i","s","t","r","a","l"," ","A","I">>>>,
    <<<<"p","e","r","p","l","e","x","i","t","y","_","a","i">>, <<"P","e","r","p","l","e","x","i","t","y">>>>,
    <<<<"c","l","a","u","d","e","a","i">>, <<"C","l","a","u","d","e"," ","A","I">>>>,
    <<<<"c","h","a","r","a","c","t","e","r","_","a","i">>, <<"C","h","a","r","a","c","t","e","r",".","A","I">>>>,
    <<<<"k","r","e","a","_","a","i">>, <<"K","r","e","a"," ","A","I">>>>,
    <<<<"w","a","v","e","s","p","e","e","d","_","a","i">>, <<"W","a","v","e","S","p","e","e","d"," ","A","I">>>>,
    <<<<"h","i","g","g","s","f","i","e","l","d","_","a","i">>, <<"H","i","g","g","s","f","i","e","l","d"," ","A","I">>>>,
    <<<<"h","e","y","d","i","n","_","a","i">>, <<"H","e","y","D","i","n"," ","A","I">>>>,
    <<<<"w","i","l","d","m","i","n","d","a","i">>, <<"W","i","l","d","M","i","n","d"," ","A","I">>>>,
    <<<<"m","i","n","i","m","a","x","_","_","a","i">>, <<"M","i","n","i","M","a","x"," ","A","I">>>>,
    <<<<"h","a","i","l","u","o","_","a","i">>, <<"H","a","i","l","u","o"," ","A","I">>>>,
    <<<<"e","x","t","r","o","p","i","c","_","a","i">>, <<"E","x","t","r","o","p","i","c"," ","A","I">>>>,
    <<<<"a","r","t","i","f","i","c","i","a","l","a","n","l","y","s">>, <<"A","r","t","i","f","i","c","i","a","l"," ","A","n","a","l","y","s","i","s">>>>,
    <<<<"t","h","e","w","o","r","l","d","l","a","b","s">>, <<"T","h","e"," ","W","o","r","l","d"," ","L","a","b","s">>>>,
    <<<<"g","o","o","g","l","e","a","n","a","l","y","t","i","c","s">>, <<"G","o","o","g","l","e"," ","A","n","a","l","y","t","i","c","s">>>>,
    <<<<"e","r","n","i","e","f","o","r","d","e","v","s">>, <<"E","r","n","i","e"," ","f","o","r"," ","D","e","v","e","l","o","p","e","r","s">>>>,
    <<<<"s","a","m","a">>, <<"@","s","a","m","a">>>>,
    <<<<"k","a","r","p","a","t","h","y">>, <<"@","k","a","r","p","a","t","h","y">>>>,
    <<<<"s","u","n","d","a","r","p","i","c","h","a","i">>, <<"@","s","u","n","d","a","r","p","i","c","h","a","i">>>>,
    <<<<"e","l","o","n","m","u","s","k">>, <<"@","e","l","o","n","m","u","s","k">>>>,
    <<<<"r","a","y","d","a","l","i","o">>, <<"@","r","a","y","d","a","l","i","o">>>>,
    <<<<"e","m","o","l","l","i","c","k">>, <<"@","e","m","o","l","l","i","c","k">>>>,
    <<<<"d","r","f","e","i","f","e","i">>, <<"@","d","r","f","e","i","f","e","i">>>>
>>

\* format_urls.generate_title_for_url: the if/elif chain under a matching domain key
PATH_CONTEXTS == <<
    <<<<"e","n","g","i","n","e","e","r","i","n","g">>, <<":"," ","E","n","g","i","n","e","e","r","i","n","g"," ","B","l","o","g">>>>,
    <<<<"r","e","s","e","a","r","c","h">>, <<":"," ","R","e","s","e","a","r","c","h">>>>,
    <<<<"b","l","o","g">>, <<":"," ","B","l","o","g"," ","P","o","s","t">>>>,
    <<<<"d","i","s","c","o","v","e","r">>, <<":"," ","D","i","s","c","o","v","e","r","y">>>>,
    <<<<"g","u","i","d","e","b","o","o","k">>, <<":"," ","G","u","i","d","e","b","o","o","k">>>>,
    <<<<"l","a","y","o","f","f","s">>, <<":"," ","L","a","y","o","f","f"," ","T","r","a","c","k","e","r">>>>,
    <<<<"a","i","-","d","e","t","e","c","t","o","r">>, <<":"," ","A","I"," ","D","e","t","e","c","t","o","r">>>>,
    <<<<"a","p","i">>, <<":"," ","A","P","I">>>>,
    <<<<"m","o","d","e","l","s">>, <<":"," ","A","I"," ","M","o","d","e","l","s">>>>,
    <<<<"p","r","o","d","u","c","t">>, <<":"," ","P","r","o","d","u","c","t">>>>
>>

\* format_urls.generate_title_for_url: the if/elif chain "Handle specific URL patterns"
SPECIFIC_URL_PATTERNS == <<
    <<<<"s","t","a","t","e","o","f",".","a","i">>, <<"S","t","a","t","e"," ","o","f"," ","A","I"," ","2","0","2","5"," ","R","e","p","o","r","t">>>>,
    <<<<"e","q","u","i","p","p","i","n","g","-","a","g","e","n","t","s">>, <<"A","n","t","h","r","o","p","i","c",":"," ","E","q","u","i","p","p","i","n","g"," ","A","g","e","n","t","s"," ","f","o","r"," ","t","h","e"," ","R","e","a","l"," ","W","o","r","l","d"," ","w","i","t","h"," ","A","g","e","n","t"," ","S","k","i","l","l","s">>>>,
    <<<<"e","c","o","n","o","m","i","c","-","p","o","l","i","c","y","-","r","e","s","p","o","n","s","e","s">>, <<"A","n","t","h","r","o","p","i","c",":"," ","E","c","o","n","o","m","i","c"," ","P","o","l","i","c","y"," ","R","e","s","p","o","n","s","e","s"," ","R","e","s","e","a","r","c","h">>>>,
    <<<<"i","n","t","r","o","d","u","c","i","n","g","-","c","o","d","e","m","e","n","d","e","r">>, <<"G","o","o","g","l","e"," ","D","e","e","p","M","i","n","d",":"," ","C","o","d","e","M","e","n","d","e","r"," ","A","I"," ","A","g","e","n","t"," ","f","o","r"," ","C","o","d","e"," ","S","e","c","u","r","i","t","y">>>>,
    <<<<"v","i","d","e","o","-","o","v","e","r","v","i","e","w","s","-","n","a","n","o","-","b","a","n","a","n","a">>, <<"G","o","o","g","l","e"," ","L","a","b","s",":"," ","V","i","d","e","o"," ","O","v","e","r","v","i","e","w","s"," ","N","a","n","o"," ","B","a","n","a","n","a">>>>,
    <<<<"a","n","n","o","u","n","c","i","n","g","-","t","h","e","-","2","0","2","5","-","d","o","r","a","-","r","e","p","o","r","t">>, <<"G","o","o","g","l","e"," ","C","l","o","u","d",":"," ","2","0","2","5"," ","D","O","R","A"," ","R","e","p","o","r","t"," ","A","n","n","o","u","n","c","e","m","e","n","t">>>>,
    <<<<"c","o","m","f","y","u","i","-","d","e","s","k","t","o","p">>, <<"S","t","a","b","l","e"," ","D","i","f","f","u","s","i","o","n"," ","A","r","t",":"," ","C","o","m","f","y","U","I"," ","D","e","s","k","t","o","p">>>>,
    <<<<"s","o","r","a","-","2","-","p","r","o","m","p","t","-","g","u","i","d","e">>, <<"H","i","g","g","s","f","i","e","l","d",".","a","i",":"," ","S","o","r","a"," ","2"," ","P","r","o","m","p","t"," ","G","u","i","d","e">>>>,
    <<<<"m","o","o","n","d","r","e","a","m","-","3","-","p","r","e","v","i","e","w">>, <<"M","o","o","n","d","r","e","a","m"," ","3"," ","P","r","e","v","i","e","w">>>>,
    <<<<"m","o","o","n","d","r","e","a","m","3","-","p","r","e","v","i","e","w">>, <<"H","u","g","g","i","n","g"," ","F","a","c","e",":"," ","M","o","o","n","d","r","e","a","m","3"," ","P","r","e","v","i","e","w"," ","M","o","d","e","l">>>>,
    <<<<"e","x","a","-","a","p","i","-","2","-","0">>, <<"E","x","a",".","a","i",":"," ","A","P","I"," ","2",".","0"," ","L","a","u","n","c","h">>>>,
    <<<<"k","a","t","-","c","o","d","e","r">>, <<"S","t","r","e","a","m","L","a","k","e",".","a","i",":"," ","K","a","t"," ","C","o","d","e","r"," ","P","r","o","d","u","c","t">>>>,
    <<<<"n","a","n","o","-","b","a","n","a","n","a","-","c","a","m","e","r","a">>, <<"C","r","e","a","t","i","v","e"," ","B","l","o","q",":"," ","i","P","h","o","n","e"," ","N","a","n","o"," ","B","a","n","a","n","a"," ","C","a","m","e","r","a"," ","f","o","r"," ","A","I"," ","P","h","o","t","o","g","r","a","p","h","y">>>>,
    <<<<"v","i","d","e","o","-","z","e","r","o","-","s","h","o","t">>, <<"V","i","d","e","o"," ","Z","e","r","o","-","S","h","o","t"," ","R","e","s","e","a","r","c","h"," ","P","r","o","j","e","c","t">>>>,
    <<<<"p","u","f","f","i","n">>, <<"P","u","f","f","i","n"," ","A","I"," ","P","r","o","j","e","c","t">>>>,
    <<<<"v","g","-","l","a","y","o","f","f","s">>, <<"O","b","s","i","d","i","a","n",":"," ","L","a","y","o","f","f","s"," ","A","r","c","h","i","v","e"," ","2","0","2","5">>>>
>>

\* CURATED_PATTERNS and DOMAIN_FALLBACKS are imported from a format_urls.py that
\* is not the one under src/ (that one defines neither).  They are the curated
\* substring table and the domain fallback table of the specification; their
\* entries here are taken from the tables format_urls.py does define.
CURATED_PATTERNS == <<
    <<<<"e","q","u","i","p","p","i","n","g","-","a","g","e","n","t","s">>, <<"A","n","t","h","r","o","p","i","c",":"," ","E","q","u","i","p","p","i","n","g"," ","A","g","e","n","t","s"," ","f","o","r"," ","t","h","e"," ","R","e","a","l"," ","W","o","r","l","d"," ","w","i","t","h"," ","A","g","e","n","t"," ","S","k","i","l","l","s">>>>,
    <<<<"i","n","t","r","o","d","u","c","i","n","g","-","c","o","d","e","m","e","n","d","e","r">>, <<"G","o","o","g","l","e"," ","D","e","e","p","M","i","n","d",":"," ","C","o","d","e","M","e","n","d","e","r"," ","A","I"," ","A","g","e","n","t"," ","f","o","r"," ","C","o","d","e"," ","S","e","c","u","r","i","t","y">>>>,
    <<<<"s","o","r","a","-","2","-","p","r","o","m","p","t","-","g","u","i","d","e">>, <<"H","i","g","g","s","f","i","e","l","d",".","a","i",":"," ","S","o","r","a"," ","2"," ","P","r","o","m","p","t"," ","G","u","i","d","e">>>>
>>

DOMAIN_FALLBACKS == <<
    <<<<"s","t","a","t","e","o","f",".","a","i">>, <<"S","t","a","t","e"," ","o","f"," ","A","I"," ","2","0","2","5"," ","R","e","p","o","r","t">>>>,
    <<<<"a","n","t","h","r","o","p","i","c",".","c","o","m">>, <<"A","n","t","h","r","o","p","i","c">>>>,
    <<<<"o","p","e","n","a","i",".","c","o","m">>, <<"O","p","e","n","A","I">>>>,
    <<<<"d","e","e","p","m","i","n","d",".","g","o","o","g","l","e">>, <<"G","o","o","g","l","e"," ","D","e","e","p","M","i","n","d">>>>
>>

\* the first pair of table among those at the indices hits, None when hits is empty
FirstHit(table, hits) == IF hits = {} THEN None ELSE table[Min(hits)]

\* for pattern, title in table.items(): if pattern in s: ...
FirstKeyIn(table, s) ==
    FirstHit(table, {k \in 1..Len(table) : IsSubstr(table[k][1], s)})

---------------------------------------------------------------------------
(* The Pattern Resolver.  A resolver returns [title, rule]: the title the  *)
(* code returns and the name of the rule (return statement) that gave it.  *)

\* the chain of .replace calls that cleans a host name
clean_domain_of(domain) ==
    Replace(Replace(Replace(Replace(Replace(domain,
        <<"w","w","w",".">>, <<>>), <<".","c","o","m">>, <<>>), <<".","o","r","g">>, <<>>), <<".","e","d","u">>, <<>>), <<".","a","i">>, <<>>)

IsTwitterUrl(url) == IsSubstr(<<"t","w","i","t","t","e","r",".","c","o","m">>, url) \/ IsSubstr(<<"x",".","c","o","m">>, url)

TwitterCategory(username) ==
    IF username \in {<<"k","a","r","p","a","t","h","y">>, <<"s","u","n","d","a","r","p","i","c","h","a","i">>, <<"e","l","o","n","m","u","s","k">>, <<"r","a","y","d","a","l","i","o">>}
        THEN <<" ",EmDash," ","A","I"," ","I","n","d","u","s","t","r","y"," ","I","n","s","i","g","h","t">>
    ELSE IF username \in {<<"e","m","o","l","l","i","c","k">>, <<"c","r","y","p","s","1","s">>, <<"m","h","d","f","a","r","a","n">>}
        THEN <<" ",EmDash," ","A","I"," ","R","e","s","e","a","r","c","h"," ","&"," ","A","n","a","l","y","s","i","s">>
    ELSE IF username \in {<<"c","l","a","u","d","e","a","i">>, <<"G","o","o","g","l","e","A","I","S","t","u","d","i","o">>, <<"b","r","a","v","e">>}
        THEN <<" ",EmDash," ","A","I"," ","P","r","o","d","u","c","t"," ","U","p","d","a","t","e">>
    ELSE IF username \in {<<"k","r","e","a","_","a","i">>, <<"w","a","v","e","s","p","e","e","d","_","a","i">>}
        THEN <<" ",EmDash," ","A","I"," ","T","o","o","l"," ","L","a","u","n","c","h">>
    ELSE <<" ",EmDash," ","A","I"," ","D","i","s","c","u","s","s","i","o","n">>

\* GenericTitle without the "if domain:" guard
GenericTitle_unguarded(domain) ==
    TitleCase(clean_domain_of(domain)) \o
         (IF EndsWith(domain, <<".","a","i">>) THEN <<":"," ","A","I"," ","P","l","a","t","f","o","r","m">>
          ELSE IF EndsWith(domain, <<".","e","d","u">>) THEN <<":"," ","A","c","a","d","e","m","i","c"," ","R","e","s","e","a","r","c","h">>
          ELSE IF EndsWith(domain, <<".","o","r","g">>) THEN <<":"," ","R","e","s","e","a","r","c","h"," ","O","r","g","a","n","i","z","a","t","i","o","n">>
          ELSE IF IsSubstr(<<"r","e","s","e","a","r","c","h">>, domain) \/ IsSubstr(<<"l","a","b">>, domain)
              THEN <<":"," ","R","e","s","e","a","r","c","h"," ","P","u","b","l","i","c","a","t","i","o","n">>
          ELSE <<":"," ","A","I"," ","R","e","s","o","u","r","c","e">>)

\* the final fallback of generate_title_for_url_original
GenericTitle(domain) ==
    IF domain = <<>> THEN <<"A","I"," ","R","e","s","o","u","r","c","e">>
    ELSE TitleCase(clean_domain_of(domain)) \o
         (IF EndsWith(domain, <<".","a","i">>) THEN <<":"," ","A","I"," ","P","l","a","t","f","o","r","m">>
          ELSE IF EndsWith(domain, <<".","e","d","u">>) THEN <<":"," ","A","c","a","d","e","m","i","c"," ","R","e","s","e","a","r","c","h">>
          ELSE IF EndsWith(domain, <<".","o","r","g">>) THEN <<":"," ","R","e","s","e","a","r","c","h"," ","O","r","g","a","n","i","z","a","t","i","o","n">>
          ELSE IF IsSubstr(<<"r","e","s","e","a","r","c","h">>, domain) \/ IsSubstr(<<"l","a","b">>, domain)
              THEN <<":"," ","R","e","s","e","a","r","c","h"," ","P","u","b","l","i","c","a","t","i","o","n">>
          ELSE <<":"," ","A","I"," ","R","e","s","o","u","r","c","e">>)

\* generate_title_for_url_original with the domain table consulted before the
\* curated table
generate_title_for_url_original_domain_first(url) ==
    LET Resolve(domain) ==
            IF IsTwitterUrl(url) THEN
                IF StatusUsername(url) # None
                THEN [title |-> StatusUsername(url) \o TwitterCategory(StatusUsername(url)),
                      rule |-> "twitter"]
                ELSE [title |-> <<"T","w","i","t","t","e","r"," ","T","h","r","e","a","d"," ",EmDash," ","A","I"," ","D","i","s","c","u","s","s","i","o","n">>, rule |-> "twitter"]
            ELSE IF IsSubstr(<<"a","r","x","i","v",".","o","r","g">>, url) THEN
                IF PaperId(url) # None
                THEN [title |-> <<"a","r","X","i","v",":"," ","R","e","s","e","a","r","c","h"," ","P","a","p","e","r"," ">> \o PaperId(url), rule |-> "arxiv"]
                ELSE [title |-> <<"a","r","X","i","v",":"," ","R","e","s","e","a","r","c","h"," ","P","a","p","e","r">>, rule |-> "arxiv"]
            ELSE IF IsSubstr(<<"g","i","t","h","u","b",".","c","o","m">>, url) THEN
                IF GithubRepo(url) # None
                THEN [title |-> <<"G","i","t","H","u","b",":"," ">> \o GithubRepo(url), rule |-> "github"]
                ELSE [title |-> <<"G","i","t","H","u","b"," ","R","e","p","o","s","i","t","o","r","y">>, rule |-> "github"]
            ELSE IF IsSubstr(<<"y","o","u","t","u","b","e",".","c","o","m">>, url) \/ IsSubstr(<<"y","o","u","t","u",".","b","e">>, url) THEN
                [title |-> <<"Y","o","u","T","u","b","e",":"," ","A","I"," ","V","i","d","e","o"," ","C","o","n","t","e","n","t">>, rule |-> "youtube"]
            ELSE IF FirstKeyIn(DOMAIN_FALLBACKS, domain) # None THEN
                [title |-> FirstKeyIn(DOMAIN_FALLBACKS, domain)[2], rule |-> "domain"]
            ELSE IF FirstKeyIn(CURATED_PATTERNS, url) # None THEN
                [title |-> FirstKeyIn(CURATED_PATTERNS, url)[2], rule |-> "curated"]
            ELSE [title |-> GenericTitle(domain), rule |-> "generic"]
    IN Resolve(get_domain(url))

\* smart_url_formatter.generate_title_for_url_original
generate_title_for_url_original(url) ==
    LET Resolve(domain) ==
            IF IsTwitterUrl(url) THEN
                IF StatusUsername(url) # None
                THEN [title |-> StatusUsername(url) \o TwitterCategory(StatusUsername(url)),
                      rule |-> "twitter"]
                ELSE [title |-> <<"T","w","i","t","t","e","r"," ","T","h","r","e","a","d"," ",EmDash," ","A","I"," ","D","i","s","c","u","s","s","i","o","n">>, rule |-> "twitter"]
            ELSE IF IsSubstr(<<"a","r","x","i","v",".","o","r","g">>, url) THEN
                IF PaperId(url) # None
                THEN [title |-> <<"a","r","X","i","v",":"," ","R","e","s","e","a","r","c","h"," ","P","a","p","e","r"," ">> \o PaperId(url), rule |-> "arxiv"]
                ELSE [title |-> <<"a","r","X","i","v",":"," ","R","e","s","e","a","r","c","h"," ","P","a","p","e","r">>, rule |-> "arxiv"]
            ELSE IF IsSubstr(<<"g","i","t","h","u","b",".","c","o","m">>, url) THEN
                IF GithubRepo(url) # None
                THEN [title |-> <<"G","i","t","H","u","b",":"," ">> \o GithubRepo(url), rule |-> "github"]
                ELSE [title |-> <<"G","i","t","H","u","b"," ","R","e","p","o","s","i","t","o","r","y">>, rule |-> "github"]
            ELSE IF IsSubstr(<<"y","o","u","t","u","b","e",".","c","o","m">>, url) \/ IsSubstr(<<"y","o","u","t","u",".","b","e">>, url) THEN
                [title |-> <<"Y","o","u","T","u","b","e",":"," ","A","I"," ","V","i","d","e","o"," ","C","o","n","t","e","n","t">>, rule |-> "youtube"]
            ELSE IF FirstKeyIn(CURATED_PATTERNS, url) # None THEN
                [title |-> FirstKeyIn(CURATED_PATTERNS, url)[2], rule |-> "curated"]
            ELSE IF FirstKeyIn(DOMAIN_FALLBACKS, domain) # None THEN
                [title |-> FirstKeyIn(DOMAIN_FALLBACKS, domain)[2], rule |-> "domain"]
            ELSE [title |-> GenericTitle(domain), rule |-> "generic"]
    IN Resolve(get_domain(url))

\* enhanced_url_formatter.generate_title_for_url_original: the same statements
enhanced_generate_title_for_url_original(url) ==
    LET Resolve(domain) ==
            IF IsTwitterUrl(url) THEN
                IF StatusUsername(url) # None
                THEN [title |-> StatusUsername(url) \o TwitterCategory(StatusUsername(url)),
                      rule |-> "twitter"]
                ELSE [title |-> <<"T","w","i","t","t","e","r"," ","T","h","r","e","a","d"," ",EmDash," ","A","I"," ","D","i","s","c","u","s","s","i","o","n">>, rule |-> "twitter"]
            ELSE IF IsSubstr(<<"a","r","x","i","v",".","o","r","g">>, url) THEN
                IF PaperId(url) # None
                THEN [title |-> <<"a","r","X","i","v",":"," ","R","e","s","e","a","r","c","h"," ","P","a","p","e","r"," ">> \o PaperId(url), rule |-> "arxiv"]
                ELSE [title |-> <<"a","r","X","i","v",":"," ","R","e","s","e","a","r","c","h"," ","P","a","p","e","r">>, rule |-> "arxiv"]
            ELSE IF IsSubstr(<<"g","i","t","h","u","b",".","c","o","m">>, url) THEN
                IF GithubRepo(url) # None
                THEN [title |-> <<"G","i","t","H","u","b",":"," ">> \o GithubRepo(url), rule |-> "github"]
                ELSE [title |-> <<"G","i","t","H","u","b"," ","R","e","p","o","s","i","t","o","r","y">>, rule |-> "github"]
            ELSE IF IsSubstr(<<"y","o","u","t","u","b","e",".","c","o","m">>, url) \/ IsSubstr(<<"y","o","u","t","u",".","b","e">>, url) THEN
                [title |-> <<"Y","o","u","T","u","b","e",":"," ","A","I"," ","V","i","d","e","o"," ","C","o","n","t","e","n","t">>, rule |-> "youtube"]
            ELSE IF FirstKeyIn(CURATED_PATTERNS, url) # None THEN
                [title |-> FirstKeyIn(CURATED_PATTERNS, url)[2], rule |-> "curated"]
            ELSE IF FirstKeyIn(DOMAIN_FALLBACKS, domain) # None THEN
                [title |-> FirstKeyIn(DOMAIN_FALLBACKS, domain)[2], rule |-> "domain"]
            ELSE [title |-> GenericTitle(domain), rule |-> "generic"]
    IN Resolve(get_domain(url))

\* format_urls.generate_title_for_url: the title under a matching DOMAIN_TITLES key
DomainTitleWithContext(label, url) ==
    IF FirstKeyIn(PATH_CONTEXTS, url) # None
    THEN label \o FirstKeyIn(PATH_CONTEXTS, url)[2]
    ELSE label

\* format_urls.generate_title_for_url
generate_title_for_url(url) ==
    LET Resolve(domain) ==
            IF MatchesTwitterPattern(url) THEN
                IF StatusUsername(url) # None
                THEN [title |-> StatusUsername(url) \o <<" ",EmDash," ","A","I"," ","D","i","s","c","u","s","s","i","o","n">>, rule |-> "twitter"]
                ELSE [title |-> <<"T","w","i","t","t","e","r"," ","T","h","r","e","a","d"," ",EmDash," ","A","I"," ","D","i","s","c","u","s","s","i","o","n">>, rule |-> "twitter"]
            ELSE IF MatchesArxivPattern(url) THEN
                IF PaperId(url) # None
                THEN [title |-> <<"a","r","X","i","v",":"," ","R","e","s","e","a","r","c","h"," ","P","a","p","e","r"," ">> \o PaperId(url), rule |-> "arxiv"]
                ELSE [title |-> <<"a","r","X","i","v",":"," ","R","e","s","e","a","r","c","h"," ","P","a","p","e","r">>, rule |-> "arxiv"]
            ELSE IF MatchesArxivPdfPattern(url) THEN
                IF PaperId(url) # None
                THEN [title |-> <<"a","r","X","i","v"," ","P","D","F",":"," ","R","e","s","e","a","r","c","h"," ","P","a","p","e","r"," ">> \o PaperId(url), rule |-> "arxiv_pdf"]
                ELSE [title |-> <<"a","r","X","i","v"," ","P","D","F",":"," ","R","e","s","e","a","r","c","h"," ","P","a","p","e","r">>, rule |-> "arxiv_pdf"]
            ELSE IF MatchesGithubPattern(url) THEN
                IF GithubRepo(url) # None
                THEN [title |-> <<"G","i","t","H","u","b",":"," ">> \o GithubRepo(url), rule |-> "github"]
                ELSE [title |-> <<"G","i","t","H","u","b"," ","R","e","p","o","s","i","t","o","r","y">>, rule |-> "github"]
            ELSE IF MatchesYoutubePattern(url) THEN
                [title |-> <<"Y","o","u","T","u","b","e"," ","V","i","d","e","o">>, rule |-> "youtube"]
            ELSE IF MatchesHuggingfacePattern(url) THEN
                IF HuggingfaceModel(url) # None
                THEN [title |-> <<"H","u","g","g","i","n","g"," ","F","a","c","e",":"," ">> \o HuggingfaceModel(url), rule |-> "huggingface"]
                ELSE [title |-> <<"H","u","g","g","i","n","g"," ","F","a","c","e"," ","M","o","d","e","l">>, rule |-> "huggingface"]
            ELSE IF FirstKeyIn(DOMAIN_TITLES, domain) # None THEN
                [title |-> DomainTitleWithContext(FirstKeyIn(DOMAIN_TITLES, domain)[2], url),
                 rule |-> "domain"]
            ELSE IF FirstKeyIn(SPECIFIC_URL_PATTERNS, url) # None THEN
                [title |-> FirstKeyIn(SPECIFIC_URL_PATTERNS, url)[2], rule |-> "curated"]
            ELSE IF domain # <<>> THEN
                [title |-> TitleCase(Replace(Replace(Replace(Replace(domain,
                                <<"w","w","w",".">>, <<>>), <<".","c","o","m">>, <<>>), <<".","o","r","g">>, <<>>), <<".","e","d","u">>, <<>>))
                           \o <<":"," ","A","I"," ","T","o","o","l">>,
                 rule |-> "generic"]
            ELSE [title |-> <<"A","I"," ","R","e","s","o","u","r","c","e">>, rule |-> "generic"]
    IN Resolve(get_domain(url))

---------------------------------------------------------------------------
(* The URLs the runs are given                                             *)

U_tweet == <<"h","t","t","p","s",":","/","/","x",".","c","o","m","/","s","a","m","a","/","s","t","a","t","u","s","/","1","9","8","3","5","8","4","3","6","6">>
U_tweet_known == <<"h","t","t","p","s",":","/","/","t","w","i","t","t","e","r",".","c","o","m","/","k","a","r","p","a","t","h","y","/","s","t","a","t","u","s","/","1","2","3","4","5","6","7","8","9","0">>
U_netflix == <<"h","t","t","p","s",":","/","/","w","w","w",".","n","e","t","f","l","i","x",".","c","o","m","/","t","u","d","u","m">>
U_arxiv == <<"h","t","t","p","s",":","/","/","a","r","x","i","v",".","o","r","g","/","a","b","s","/","2","5","1","0",".","1","8","2","1","2">>
U_arxiv_pdf == <<"h","t","t","p","s",":","/","/","a","r","x","i","v",".","o","r","g","/","p","d","f","/","2","5","1","0",".","1","8","2","1","2">>
U_github == <<"h","t","t","p","s",":","/","/","g","i","t","h","u","b",".","c","o","m","/","f","o","o","/","b","a","r">>
U_github_arxiv == <<"h","t","t","p","s",":","/","/","g","i","t","h","u","b",".","c","o","m","/","f","o","o","/","a","r","x","i","v",".","o","r","g","-","t","o","o","l","s">>
U_youtube == <<"h","t","t","p","s",":","/","/","w","w","w",".","y","o","u","t","u","b","e",".","c","o","m","/","w","a","t","c","h","?","v","=","d","Q","w","4","w","9","W","g","X","c","Q">>
U_curated == <<"h","t","t","p","s",":","/","/","w","w","w",".","a","n","t","h","r","o","p","i","c",".","c","o","m","/","e","n","g","i","n","e","e","r","i","n","g","/","e","q","u","i","p","p","i","n","g","-","a","g","e","n","t","s">>
U_curated_only == <<"h","t","t","p","s",":","/","/","w","w","w",".","e","x","a","m","p","l","e",".","c","o","m","/","s","o","r","a","-","2","-","p","r","o","m","p","t","-","g","u","i","d","e">>
U_openai == <<"h","t","t","p","s",":","/","/","o","p","e","n","a","i",".","c","o","m","/","i","n","d","e","x","/","i","n","t","r","o","d","u","c","i","n","g","-","a","a","r","d","v","a","r","k","/">>
U_org == <<"h","t","t","p","s",":","/","/","e","x","a","m","p","l","e",".","o","r","g","/","p","a","g","e">>
U_com == <<"h","t","t","p","s",":","/","/","w","w","w",".","e","x","a","m","p","l","e",".","c","o","m","/","w","e","e","k","l","y">>
U_ai == <<"h","t","t","p","s",":","/","/","n","e","w","t","o","o","l",".","a","i","/">>
U_lab == <<"h","t","t","p","s",":","/","/","l","a","b",".","e","x","a","m","p","l","e",".","n","e","t","/","n","o","t","e","s">>
U_fb_research == <<"h","t","t","p","s",":","/","/","r","e","s","e","a","r","c","h",".","f","a","c","e","b","o","o","k",".","c","o","m","/","p","u","b","l","i","c","a","t","i","o","n","s">>
U_reddit_org == <<"h","t","t","p","s",":","/","/","r","e","d","d","i","t",".","c","o","m",".","e","x","a","m","p","l","e",".","o","r","g","/","r","/","a","i">>
U_mit == <<"h","t","t","p","s",":","/","/","l","i","n","u","x",".","c","o","m","p","u","t","i","n","g",".","m","i","t",".","e","d","u","/","d","o","c","s">>
U_hf == <<"h","t","t","p","s",":","/","/","h","u","g","g","i","n","g","f","a","c","e",".","c","o","/","m","o","o","n","d","r","e","a","m","/","m","o","o","n","d","r","e","a","m","3","-","p","r","e","v","i","e","w">>
U_nohost == <<"w","w","w",".","e","x","a","m","p","l","e",".","c","o","m","/","p","a","g","e">>
U_empty_host == <<"h","t","t","p","s",":","/","/","/","i","n","d","e","x",".","h","t","m","l">>
U_bracket == <<"h","t","t","p",":","/","/","[","i","n","v","a","l","i","d","/","p","a","g","e">>

Corpus == {U_tweet, U_tweet_known, U_netflix, U_arxiv, U_arxiv_pdf, U_github,
           U_github_arxiv, U_youtube, U_curated, U_curated_only, U_openai, U_org,
           U_com, U_ai, U_lab, U_fb_research, U_reddit_org, U_mit, U_hf, U_nohost,
           U_empty_host, U_bracket}

---------------------------------------------------------------------------
(* The network as one call sees it.  net.r1 and net.r2 are the outcomes of *)
(* the first and the second request the call issues ("200", "404",         *)
(* "timeout": requests.exceptions.Timeout, "error": any other exception);  *)
(* net.page is what BeautifulSoup finds in the body that was read (or      *)
(* a page with readable FALSE: reading or parsing the body raises);        *)
(* net.found is the text                                                   *)
(* the four strategies of scrape_tweet_content find in a tweet page;       *)
(* net.path tells whether parse_url_path_to_title finds a title.           *)

Outcomes == {"200", "404", "timeout", "error"}

\* a logged request or pause
GetEvent(by, url, timeout) == [ev |-> "GET", by |-> by, url |-> url, timeout |-> timeout]
HeadEvent(by, url, timeout) == [ev |-> "HEAD", by |-> by, url |-> url, timeout |-> timeout]
SleepEvent(by, tenths) == [ev |-> "sleep", by |-> by, tenths |-> tenths]

---------------------------------------------------------------------------
(* smart_url_formatter: the enrichment policy                              *)

\* should_extract_metadata with the allow list consulted before the deny list
should_extract_metadata_allow_first(url) ==
    LET Decide(domain) ==
            IF \E safe \in SAFE_DOMAINS : IsSubstr(safe, domain) THEN TRUE
            ELSE IF EndsWith(domain, <<".","e","d","u">>) \/ EndsWith(domain, <<".","o","r","g">>) THEN TRUE
            ELSE IF EndsWith(domain, <<".","a","i">>) \/ IsSubstr(<<"r","e","s","e","a","r","c","h">>, domain)
                    \/ IsSubstr(<<"l","a","b">>, domain) THEN TRUE
            ELSE IF \E ai_domain \in ai_company_domains : IsSubstr(ai_domain, domain) THEN TRUE
            ELSE IF \E avoid \in AVOID_DOMAINS : IsSubstr(avoid, domain) THEN FALSE
            ELSE FALSE
    IN Decide(get_domain(url))

should_extract_metadata(url) ==
    LET Decide(domain) ==
            IF \E avoid \in AVOID_DOMAINS : IsSubstr(avoid, domain) THEN FALSE
            ELSE IF \E safe \in SAFE_DOMAINS : IsSubstr(safe, domain) THEN TRUE
            ELSE IF EndsWith(domain, <<".","e","d","u">>) \/ EndsWith(domain, <<".","o","r","g">>) THEN TRUE
            ELSE IF EndsWith(domain, <<".","a","i">>) \/ IsSubstr(<<"r","e","s","e","a","r","c","h">>, domain)
                    \/ IsSubstr(<<"l","a","b">>, domain) THEN TRUE
            ELSE IF \E ai_domain \in ai_company_domains : IsSubstr(ai_domain, domain) THEN TRUE
            ELSE FALSE
    IN Decide(get_domain(url))

---------------------------------------------------------------------------
(* smart_url_formatter.extract_title_from_url                              *)

Separators == {"-", "|"}

\* the first index >= i of s that holds no white space (Len(s) + 1 when none)
SkipSpaces(s, i) ==
    IF \E j \in i..Len(s) : ~IsSpace(s[j])
    THEN CHOOSE j \in i..Len(s) : ~IsSpace(s[j]) /\ \A k \in i..(j - 1) : IsSpace(s[k])
    ELSE Len(s) + 1

\* the start of the run of white space that ends just before k
SpacesStart(s, k) ==
    IF \E j \in 1..(k - 1) : ~IsSpace(s[j])
    THEN 1 + CHOOSE j \in 1..(k - 1) : ~IsSpace(s[j]) /\ \A m \in (j + 1)..(k - 1) : IsSpace(s[m])
    ELSE 1

\* s with everything from the white space before its first separator among
\* the positions rests on cut off; s when there is none.  This is
\* re.sub(r"\s*[-|]\s*<tail>.*$", "", s) for a text without line breaks, rests
\* being the positions after which <tail> matches.
CutAtSeparator(s, rests) ==
    LET Cut(cuts) == IF cuts = {} THEN s ELSE SubSeq(s, 1, SpacesStart(s, Min(cuts)) - 1)
    IN Cut({k \in rests : s[k] \in Separators})

\* re.sub(r"\s*[-|]\s*(Home|Welcome|Official).*$", "", title, flags=re.IGNORECASE)
StripSiteSuffix(title) ==
    LET Rests(lower) ==
            {k \in 1..Len(title) :
                \E w \in {<<"h","o","m","e">>, <<"w","e","l","c","o","m","e">>, <<"o","f","f","i","c","i","a","l">>} :
                    StartsWithAt(lower, SkipSpaces(title, k + 1), w)}
    IN CutAtSeparator(title, Rests(Lower(title)))

\* re.sub(r"\s*[-|]\s*.*\.(com|org|edu|ai).*$", "", title, flags=re.IGNORECASE)
StripDomainSuffix(title) ==
    LET Tlds(lower) ==
            {j \in 1..Len(title) :
                \E w \in {<<".","c","o","m">>, <<".","o","r","g">>, <<".","e","d","u">>, <<".","a","i">>} : StartsWithAt(lower, j, w)}
        Rests(tlds) == {k \in 1..Len(title) : \E j \in tlds : j > k}
    IN CutAtSeparator(title, Rests(Tlds(Lower(title))))

\* what re.sub leaves of a text: pieces[a] .. pieces[b] one after the other,
\* where pieces[i] is what stands for the character i of the text
RECURSIVE Pieces(_, _, _)
Pieces(pieces, a, b) ==
    IF a > b THEN <<>>
    ELSE IF a = b THEN pieces[a]
    ELSE Pieces(pieces, a, (a + b) \div 2) \o Pieces(pieces, (a + b) \div 2 + 1, b)

\* re.sub(r"\s*[-|]\s*", " <em dash> ", title): a separator becomes the dash,
\* the white space that leads to a separator or follows one goes
DashSeparators(title) ==
    LET Leads(i) == /\ SkipSpaces(title, i) <= Len(title)
                    /\ title[SkipSpaces(title, i)] \in Separators
        Follows(i) == /\ SpacesStart(title, i) > 1
                      /\ title[SpacesStart(title, i) - 1] \in Separators
    IN Pieces([i \in 1..Len(title) |->
                    IF title[i] \in Separators THEN <<" ",EmDash," ">>
                    ELSE IF IsSpace(title[i]) /\ (Leads(i) \/ Follows(i)) THEN <<>>
                    ELSE <<title[i]>>],
              1, Len(title))

\* re.sub(r"\s+", " ", s): the first character of a run of white space becomes
\* a blank, the others go
CollapseSpaces(s) ==
    Pieces([i \in 1..Len(s) |->
                IF ~IsSpace(s[i]) THEN <<s[i]>>
                ELSE IF i > 1 /\ IsSpace(s[i - 1]) THEN <<>>
                ELSE <<" ">>],
           1, Len(s))

\* an attribute or element text that is there and truthy
Present(text) == text # None /\ text # <<>>

\* s[:n] + "..." when s is longer than limit, s otherwise
Ellipsize(s, limit, n) == IF Len(s) > limit THEN SubSeq(s, 1, n) \o <<".",".",".">> ELSE s

\* Strategy 3 for one <script type="application/ld+json">: the stripped value of
\* the first of headline, name, title that is truthy; <<>> when there is none
JsonLdTitle(script) ==
    IF ~script.valid THEN <<>>
    ELSE IF Present(script.headline) THEN Strip(script.headline)
    ELSE IF Present(script.name) THEN Strip(script.name)
    ELSE IF Present(script.title) THEN Strip(script.title)
    ELSE <<>>

\* Strategies 1 to 4: [title, source], title <<>> when no strategy gives one
RawTitle(page) ==
    IF Present(page.og_title) /\ Strip(page.og_title) # <<>>
        THEN [title |-> Strip(page.og_title), source |-> "og:title"]
    ELSE IF Present(page.twitter_title) /\ Strip(page.twitter_title) # <<>>
        THEN [title |-> Strip(page.twitter_title), source |-> "twitter:title"]
    ELSE IF \E k \in 1..Len(page.json_ld) : JsonLdTitle(page.json_ld[k]) # <<>>
        THEN [title |-> JsonLdTitle(page.json_ld[
                            CHOOSE k \in 1..Len(page.json_ld) :
                                /\ JsonLdTitle(page.json_ld[k]) # <<>>
                                /\ \A j \in 1..(k - 1) : JsonLdTitle(page.json_ld[j]) = <<>>]),
              source |-> "json-ld"]
    ELSE IF Present(page.title_tag) /\ Strip(page.title_tag) # <<>>
        THEN [title |-> Strip(page.title_tag), source |-> "title"]
    ELSE [title |-> <<>>, source |-> "none"]

\* "Clean up common title patterns"
CleanTitle(title) ==
    Strip(CollapseSpaces(DashSeparators(StripDomainSuffix(StripSiteSuffix(title)))))

\* the meta description tag the code looks at: name="description", and
\* og:description only when that tag is absent
MetaDescription(page) ==
    IF page.description # None THEN page.description ELSE page.og_description

\* "If title is too generic (just site name), try meta description"
TitleIsGeneric(title, domain) ==
    \/ Lower(title) = Lower(clean_domain_of(domain))
    \/ Len(title) < 10

UsesDescription(title, domain, page) ==
    /\ TitleIsGeneric(title, domain)
    /\ Present(MetaDescription(page))
    /\ Len(Strip(MetaDescription(page))) > 20

\* lines 265 to 338: the title found in a body that was read
TitleFromPage(domain, page) ==
    LET Truncated(final, cleaned, source, described) ==
            [title |-> IF Len(final) > 5 THEN final ELSE None,
             source |-> source, cleaned |-> cleaned, described |-> described]
        Described(cleaned, source, described) ==
            Truncated(Ellipsize(IF described
                                THEN Ellipsize(Strip(MetaDescription(page)), 80, 80)
                                ELSE cleaned,
                                100, 97),
                      cleaned, source, described)
        Cleaned(cleaned, source) ==
            Described(cleaned, source, UsesDescription(cleaned, domain, page))
        Found(raw) ==
            IF ~page.readable \/ raw.title = <<>>
            THEN [title |-> None, source |-> "none", cleaned |-> <<>>,
                  described |-> FALSE]
            ELSE Cleaned(CleanTitle(raw.title), raw.source)
    IN Found(RawTitle(page))

\* "Adjust timeout based on domain type"
ExtractTimeout(url, timeout) ==
    IF \E company \in {<<"o","p","e","n","a","i",".","c","o","m">>, <<"a","n","t","h","r","o","p","i","c",".","c","o","m">>, <<"g","o","o","g","l","e",".","c","o","m">>, <<"d","e","e","p","m","i","n","d",".","g","o","o","g","l","e">>} :
            IsSubstr(company, get_domain(url))
    THEN IF timeout > 8 THEN timeout ELSE 8
    ELSE timeout

\* The retry loop (max_retries = 2): the requests it issues, and whether it
\* is left with a response of status 200
ExtractRequests(url, timeout, net) ==
    LET Loop(get) ==
            IF net.r1 = "200" THEN [events |-> <<get>>, ok |-> TRUE]
            ELSE IF net.r1 = "error" THEN [events |-> <<get>>, ok |-> FALSE]
            ELSE IF net.r1 = "timeout" THEN
                [events |-> <<get, SleepEvent("extract_title_from_url", 10), get>>,
                 ok |-> net.r2 = "200"]
            ELSE [events |-> <<get, get>>, ok |-> net.r2 = "200"]
    IN Loop(GetEvent("extract_title_from_url", url, ExtractTimeout(url, timeout)))

\* extract_title_from_url(url, timeout=5): [title, events], with the strategy
\* that gave the title (source), the title after the clean-up (cleaned) and
\* whether the meta description replaced it (described)
extract_title_from_url(url, net) ==
    LET Parsed(req, found) ==
            [title |-> found.title, events |-> req.events, source |-> found.source,
             cleaned |-> found.cleaned, described |-> found.described]
        Requested(req) ==
            IF req.ok THEN Parsed(req, TitleFromPage(get_domain(url), net.page))
            ELSE [title |-> None, events |-> req.events, source |-> "none",
                  cleaned |-> <<>>, described |-> FALSE]
    IN Requested(ExtractRequests(url, 5, net))

---------------------------------------------------------------------------
(* twitter_scraper                                                         *)

\* re.sub(r"\s+https?://\S+$", "", text): the positions where a match starts
TrailingUrlStarts(s) ==
    {i \in 1..Len(s) :
        /\ IsSpace(s[i])
        /\ \E h \in HttpPrefixes :
            /\ StartsWithAt(s, SkipSpaces(s, i), h)
            /\ SkipSpaces(s, i) + Len(h) <= Len(s)
        /\ \A k \in SkipSpaces(s, i)..Len(s) : ~IsSpace(s[k])}

StripTrailingUrl(s) ==
    IF TrailingUrlStarts(s) = {} THEN s ELSE SubSeq(s, 1, Min(TrailingUrlStarts(s)) - 1)

\* "Clean up the tweet text" (lines 111 to 122)
CleanTweet(found) ==
    IF ~Present(found) THEN None
    ELSE LET text == Ellipsize(StripTrailingUrl(Strip(CollapseSpaces(found))), 200, 197)
         IN IF Len(text) > 10 THEN text ELSE None

\* scrape_tweet_content(url, timeout=10): [text, events]
scrape_tweet_content(url, net) ==
    IF url = <<>> \/ ~IsTwitterUrl(url) THEN [text |-> None, events |-> <<>>]
    ELSE [text |-> IF net.r1 = "200" /\ net.page.readable THEN CleanTweet(net.found) ELSE None,
          events |-> <<GetEvent("scrape_tweet_content", url, 10)>>]

\* format_username
format_username(username) ==
    LET Named(hit) == IF hit # None THEN hit[2] ELSE <<"@">> \o username
    IN Named(FirstHit(USERNAME_TO_DISPLAY_NAME,
                      {k \in 1..Len(USERNAME_TO_DISPLAY_NAME) :
                            USERNAME_TO_DISPLAY_NAME[k][1] = Lower(username)}))

\* tweet_text[:60].rsplit(' ', 1)[0]
BeforeLastSpace(s) ==
    IF \E i \in 1..Len(s) : s[i] = " "
    THEN SubSeq(s, 1, (CHOOSE i \in 1..Len(s) : s[i] = " " /\ \A j \in (i + 1)..Len(s) : s[j] # " ") - 1)
    ELSE s

TruncateTweet(text) ==
    IF Len(text) > 60 THEN BeforeLastSpace(SubSeq(text, 1, 60)) \o <<".",".",".">> ELSE text

\* generate_twitter_title(url, tweet_text=None, enable_scraping): [title, rule, events]
generate_twitter_title(url, enable_scraping, net) ==
    LET Titled(display_name, scraped) ==
            [title |-> IF Present(scraped.text)
                       THEN display_name \o <<" ",EmDash," ">> \o TruncateTweet(scraped.text)
                       ELSE display_name,
             rule |-> IF Present(scraped.text) THEN "tweet_text" ELSE "display_name",
             events |-> scraped.events]
        Matched(username) ==
            IF username = None
            THEN [title |-> <<"T","w","i","t","t","e","r"," ","T","h","r","e","a","d">>, rule |-> "twitter_thread", events |-> <<>>]
            ELSE Titled(format_username(username),
                        IF enable_scraping THEN scrape_tweet_content(url, net)
                        ELSE [text |-> None, events |-> <<>>])
    IN Matched(StatusUsername(url))

---------------------------------------------------------------------------
(* format_urls.parse_url_path_to_title is called by generate_smart_title_  *)
(* for_url and tested by test_link_generation.py, and the format_urls.py   *)
(* under src/ does not define it.  It is modelled as giving either nothing *)
(* or the last path segment in title case, as net.path says.               *)

\* the path of the URL: what lies between the host and the first "?" or "#"
UrlPath(url) ==
    LET From(rest, from) ==
            LET ends == {j \in from..Len(rest) : rest[j] \in {"?", "#"}}
            IN SubSeq(rest, from, IF ends = {} THEN Len(rest) ELSE Min(ends) - 1)
        Of(rest) == From(rest, IF StartsWith(rest, <<"/", "/">>) THEN 3 + Len(Netloc(url)) ELSE 1)
    IN Of(AfterScheme(url))

\* the last segment of the path that is not empty, <<>> when there is none
LastSegment(path) ==
    LET starts == {i \in 1..Len(path) : path[i] # "/" /\ (i = 1 \/ path[i - 1] = "/")}
    IN IF starts = {} THEN <<>>
       ELSE LET a == CHOOSE i \in starts : \A j \in starts : j <= i
            IN SubSeq(path, a, NextSlash(path, a) - 1)

parse_url_path_to_title(url, domain, net) ==
    LET Of(segment) ==
            IF net.path /\ segment # <<>>
            THEN TitleCase(Replace(segment, <<"-">>, <<" ">>))
            ELSE None
    IN Of(LastSegment(UrlPath(url)))

---------------------------------------------------------------------------
(* smart_url_formatter.generate_smart_title_for_url                        *)

\* "Try URL path parsing before final fallback": the title of lines 394 to 416
PathTitle(domain, path_title) ==
    IF FirstKeyIn(DOMAIN_FALLBACKS, domain) # None
        THEN FirstKeyIn(DOMAIN_FALLBACKS, domain)[2] \o <<":"," ">> \o path_title
    ELSE IF clean_domain_of(domain) # <<>>
        THEN TitleCase(clean_domain_of(domain)) \o <<":"," ">> \o path_title
    ELSE path_title

\* lines 381 to 421: what is returned when no title was extracted
SmartFallback(url, domain, net, events) ==
    LET Parsed(path_title) ==
            IF path_title # None
            THEN [title |-> PathTitle(domain, path_title), rule |-> "path",
                  events |-> events]
            ELSE [title |-> generate_title_for_url_original(url).title,
                  rule |-> "original", events |-> events]
    IN Parsed(parse_url_path_to_title(url, domain, net))

\* generate_smart_title_for_url(url, enable_twitter_scraping): [title, rule, events]
generate_smart_title_for_url(url, enable_twitter_scraping, net) ==
    LET Enriched(domain, extracted) ==
            IF Present(extracted.title)
            THEN [title |-> extracted.title, rule |-> "extracted",
                  events |-> extracted.events]
            ELSE SmartFallback(url, domain, net, extracted.events)
        Resolve(domain) ==
            IF IsTwitterUrl(url)
                THEN generate_twitter_title(url, enable_twitter_scraping, net)
            ELSE IF FirstKeyIn(ENHANCED_CURATED_PATTERNS, url) # None THEN
                [title |-> FirstKeyIn(ENHANCED_CURATED_PATTERNS, url)[2],
                 rule |-> "enhanced_curated", events |-> <<>>]
            ELSE IF FirstKeyIn(CURATED_PATTERNS, url) # None THEN
                [title |-> FirstKeyIn(CURATED_PATTERNS, url)[2], rule |-> "curated",
                 events |-> <<>>]
            ELSE Enriched(domain,
                          IF should_extract_metadata(url)
                          THEN extract_title_from_url(url, net)
                          ELSE [title |-> None, events |-> <<>>])
    IN Resolve(get_domain(url))

---------------------------------------------------------------------------
(* enhanced_url_formatter                                                  *)

\* extract_metadata_from_url(url, timeout=5): the metadata dict, and the requests
extract_metadata_from_url(url, net) ==
    LET head == HeadEvent("extract_metadata_from_url", url, 5)
        get == GetEvent("extract_metadata_from_url", url, 5)
        Failed(status, events) ==
            [title |-> <<>>, description |-> <<>>, domain |-> Lower(Netloc(url)),
             status |-> status, events |-> events]
    IN IF UrlParseRaises(url)
       THEN [title |-> <<>>, description |-> <<>>, domain |-> <<>>,
             status |-> "error", events |-> <<>>]
       ELSE IF net.r1 = "timeout" THEN Failed("timeout", <<head>>)
       ELSE IF net.r1 = "error" THEN Failed("connection_error", <<head>>)
       ELSE IF net.r1 # "200" THEN Failed("head_error", <<head>>)
       ELSE IF net.r2 = "timeout" THEN Failed("timeout", <<head, get>>)
       ELSE IF net.r2 = "error" THEN Failed("connection_error", <<head, get>>)
       ELSE IF net.r2 # "200" THEN Failed("http_error", <<head, get>>)
       ELSE IF ~net.page.readable THEN Failed("error", <<head, get>>)
       ELSE [title |-> IF Present(net.page.title_tag) THEN Strip(net.page.title_tag) ELSE <<>>,
             description |-> IF Present(net.page.description)
                             THEN Strip(net.page.description) ELSE <<>>,
             domain |-> Lower(Netloc(url)),
             status |-> "success",
             events |-> <<head, get>>]

\* lines 132 to 155: the title made of a page title
EnhancedTitle(page_title, domain) ==
    LET title == Ellipsize(StripDomainSuffix(StripSiteSuffix(page_title)), 80, 77)
    IN IF domain # <<>> /\ ~IsSubstr(domain, Lower(title))
       THEN title \o <<" ","(">>
            \o (IF StartsWith(domain, <<"w","w","w",".">>) THEN SubSeq(domain, 5, Len(domain)) ELSE domain)
            \o <<")">>
       ELSE title

\* generate_enhanced_title_for_url(url, use_metadata): [title, rule, events]
generate_enhanced_title_for_url(url, use_metadata, net) ==
    LET Extracted(original_title, metadata) ==
            IF metadata.status = "success" /\ metadata.title # <<>>
            THEN [title |-> EnhancedTitle(metadata.title, metadata.domain),
                  rule |-> "metadata", events |-> metadata.events]
            ELSE [title |-> original_title, rule |-> "original", events |-> metadata.events]
        Resolve(original_title) ==
            IF FirstKeyIn(CURATED_PATTERNS, url) # None
                THEN [title |-> original_title, rule |-> "curated", events |-> <<>>]
            ELSE IF use_metadata
                    /\ ~\E social \in {<<"t","w","i","t","t","e","r",".","c","o","m">>, <<"x",".","c","o","m">>, <<"y","o","u","t","u","b","e",".","c","o","m">>, <<"y","o","u","t","u",".","b","e">>} :
                            IsSubstr(social, url)
                THEN Extracted(original_title, extract_metadata_from_url(url, net))
            ELSE [title |-> original_title, rule |-> "original", events |-> <<>>]
    IN Resolve(enhanced_generate_title_for_url_original(url).title)

---------------------------------------------------------------------------
(* The pages and tweets the network serves                                 *)

Page(og, card, ld, tag, desc, ogdesc) ==
    [readable |-> TRUE, og_title |-> og, twitter_title |-> card, json_ld |-> ld,
     title_tag |-> tag, description |-> desc, og_description |-> ogdesc]

UnreadablePage ==
    [readable |-> FALSE, og_title |-> None, twitter_title |-> None, json_ld |-> <<>>,
     title_tag |-> None, description |-> None, og_description |-> None]

\* a <script type="application/ld+json"> holding a dict, and one json.loads rejects
JsonLd(headline, name, title) ==
    [valid |-> TRUE, headline |-> headline, name |-> name, title |-> title]

InvalidScript == [valid |-> FALSE, headline |-> None, name |-> None, title |-> None]

T_og == <<"I","n","t","r","o","d","u","c","i","n","g"," ","A","a","r","d","v","a","r","k"," ","|"," ","O","p","e","n","A","I">>
T_blank == <<" "," ">>
T_card == <<"A","a","r","d","v","a","r","k",":"," ","a","g","e","n","t","i","c"," ","s","e","c","u","r","i","t","y"," ","r","e","s","e","a","r","c","h","e","r">>
T_headline == <<"A","a","r","d","v","a","r","k"," ","f","i","n","d","s"," ","a","n","d"," ","f","i","x","e","s"," ","b","u","g","s">>
T_name == <<"O","p","e","n","A","I"," ","A","a","r","d","v","a","r","k">>
T_site == <<"O","p","e","n","A","I">>
T_suffix == <<"S","o","r","a"," ","2"," ","-"," ","o","p","e","n","a","i",".","c","o","m">>
T_home == <<"E","x","a","m","p","l","e"," ","D","o","m","a","i","n"," ","-"," ","H","o","m","e"," ","o","f"," ","e","x","a","m","p","l","e","s">>
D_short == <<"A","I"," ","r","e","s","e","a","r","c","h"," ","l","a","b",".">>
D_mid == <<"O","p","e","n","A","I"," ","b","u","i","l","d","s"," ","s","a","f","e"," ","a","n","d"," ","b","e","n","e","f","i","c","i","a","l"," ","A","I",".">>
D_long == <<"A","a","r","d","v","a","r","k"," ","i","s"," ","a","n"," ","a","g","e","n","t","i","c"," ","s","e","c","u","r","i","t","y"," ","r","e","s","e","a","r","c","h","e","r"," ","t","h","a","t"," ","c","o","n","t","i","n","u","o","u","s","l","y"," ","a","n","a","l","y","s","e","s"," ","s","o","u","r","c","e"," ","c","o","d","e"," ","r","e","p","o","s","i","t","o","r","i","e","s"," ","t","o"," ","f","i","n","d"," ","v","u","l","n","e","r","a","b","i","l","i","t","i","e","s",".">>
D_og == <<"O","p","e","n"," ","G","r","a","p","h"," ","d","e","s","c","r","i","p","t","i","o","n"," ","o","f"," ","t","h","e"," ","p","a","g","e",".">>

W_short == <<"g","m">>
W_link == <<"W","e"," ","a","r","e"," ","l","a","u","n","c","h","i","n","g"," ","A","a","r","d","v","a","r","k"," ","t","o","d","a","y"," "," "," ","h","t","t","p","s",":","/","/","o","p","e","n","a","i",".","c","o","m","/","a","a","r","d","v","a","r","k">>
W_long == <<"T","o","d","a","y"," ","w","e"," ","a","r","e"," ","i","n","t","r","o","d","u","c","i","n","g"," ","a"," ","n","e","w"," ","a","g","e","n","t"," ","t","h","a","t"," ","r","e","a","d","s"," ","c","o","d","e"," ","a","n","d"," ","p","r","o","p","o","s","e","s"," ","f","i","x","e","s"," ","f","o","r"," ","s","e","c","u","r","i","t","y"," ","b","u","g","s">>

T_some == <<"W","e","e","k","l","y"," ","n","o","t","e","s"," ","o","n"," ","A","I"," ","t","o","o","l","s">>

T_over == <<"A"," ","f","i","e","l","d"," ","g","u","i","d","e"," ","t","o"," ","e","v","a","l","u","a","t","i","n","g"," ","l","a","r","g","e"," ","l","a","n","g","u","a","g","e"," ","m","o","d","e","l"," ","a","g","e","n","t","s"," ","o","n"," ","l","o","n","g"," ","s","o","f","t","w","a","r","e"," ","e","n","g","i","n","e","e","r","i","n","g"," ","t","a","s","k","s">>
T_near == <<"H","o","w"," ","s","m","a","l","l"," ","t","e","a","m","s"," ","s","h","i","p"," ","r","e","l","i","a","b","l","e"," ","m","a","c","h","i","n","e"," ","l","e","a","r","n","i","n","g"," ","s","y","s","t","e","m","s"," ","i","n"," ","p","r","o","d","u","c","t","i","o","n">>

TitlePages ==
    {Page(T_og, T_card, <<JsonLd(T_headline, None, None)>>, T_some, D_mid, D_og),
     Page(None, None, <<>>, T_site, D_mid, None),
     Page(None, None, <<>>, None, None, None),
     UnreadablePage}

TweetTexts == {None, W_short, W_link, W_long}

\* what one call of a title function can meet on the network: a page behind
\* every pair of outcomes, or a tweet page in which a text is found
PageNets ==
    [r1 : Outcomes, r2 : {"200", "timeout"}, page : TitlePages, found : {None},
     path : BOOLEAN]

TweetNets ==
    [r1 : {"200", "404"}, r2 : {"200"},
     page : {Page(None, None, <<>>, T_some, None, None), UnreadablePage},
     found : TweetTexts \ {None}, path : {FALSE}]

TitleNets == PageNets \cup TweetNets

\* pages whose title is longer than the budget of 80 characters, or close to it
LongTitleNets ==
    [r1 : {"200"}, r2 : {"200"},
     page : {Page(None, None, <<>>, T_over, None, None),
             Page(None, None, <<>>, T_near, None, None)},
     found : {None}, path : {FALSE}]

---------------------------------------------------------------------------
(* Specification SpecTitle: one call of one of the title functions.        *)
(* call is the function and its arguments, ret what it returned, log the   *)
(* requests and pauses it made.                                            *)

NoCall == [fn |-> "none"]
NoRet == [title |-> None, rule |-> "none"]

InitTitle ==
    /\ pc = "idle"
    /\ call = NoCall
    /\ ret = NoRet
    /\ log = <<>>
    /\ unique_urls = <<>>
    /\ markdown_links = <<>>
    /\ doc = <<>>
    /\ content_len = 0
    /\ weekly_dir = NoFiles

\* The actions take the value the call returns as their last argument.

CallOriginal(url, result) ==
    /\ pc = "idle"
    /\ pc' = "done"
    /\ call' = [fn |-> "generate_title_for_url_original", url |-> url]
    /\ ret' = [title |-> result.title, rule |-> result.rule]
    /\ UNCHANGED <<log, unique_urls, markdown_links, doc, content_len, weekly_dir>>

CallEnhancedOriginal(url, result) ==
    /\ pc = "idle"
    /\ pc' = "done"
    /\ call' = [fn |-> "enhanced_url_formatter.generate_title_for_url_original", url |-> url]
    /\ ret' = [title |-> result.title, rule |-> result.rule]
    /\ UNCHANGED <<log, unique_urls, markdown_links, doc, content_len, weekly_dir>>

CallFormatUrls(url, result) ==
    /\ pc = "idle"
    /\ pc' = "done"
    /\ call' = [fn |-> "format_urls.generate_title_for_url", url |-> url]
    /\ ret' = [title |-> result.title, rule |-> result.rule]
    /\ UNCHANGED <<log, unique_urls, markdown_links, doc, content_len, weekly_dir>>

CallSmart(url, enable_twitter_scraping, net, result) ==
    /\ pc = "idle"
    /\ pc' = "done"
    /\ call' = [fn |-> "generate_smart_title_for_url", url |-> url,
                enable_twitter_scraping |-> enable_twitter_scraping, net |-> net]
    /\ ret' = [title |-> result.title, rule |-> result.rule]
    /\ log' = log \o result.events
    /\ UNCHANGED <<unique_urls, markdown_links, doc, content_len, weekly_dir>>

CallEnhanced(url, use_metadata, net, result) ==
    /\ pc = "idle"
    /\ pc' = "done"
    /\ call' = [fn |-> "generate_enhanced_title_for_url", url |-> url,
                use_metadata |-> use_metadata, net |-> net]
    /\ ret' = [title |-> result.title, rule |-> result.rule]
    /\ log' = log \o result.events
    /\ UNCHANGED <<unique_urls, markdown_links, doc, content_len, weekly_dir>>

NextTitle ==
    \/ \E url \in Corpus : CallOriginal(url, generate_title_for_url_original(url))
    \/ \E url \in Corpus :
            CallEnhancedOriginal(url, enhanced_generate_title_for_url_original(url))
    \/ \E url \in Corpus : CallFormatUrls(url, generate_title_for_url(url))
    \/ \E url \in Corpus, enable_twitter_scraping \in BOOLEAN, net \in TitleNets :
            CallSmart(url, enable_twitter_scraping, net,
                      generate_smart_title_for_url(url, enable_twitter_scraping, net))
    \/ \E url \in Corpus, use_metadata \in BOOLEAN, net \in TitleNets \cup LongTitleNets :
            CallEnhanced(url, use_metadata, net,
                         generate_enhanced_title_for_url(url, use_metadata, net))

SpecTitle == InitTitle /\ [][NextTitle]_vars

---------------------------------------------------------------------------
(* The batch formatters                                                    *)

NewLine == "\n"

\* "\n".join(lines), and sep.join in general
RECURSIVE JoinWith(_, _)
JoinWith(lines, sep) ==
    IF lines = <<>> THEN <<>>
    ELSE IF Len(lines) = 1 THEN lines[1]
    ELSE lines[1] \o sep \o JoinWith(Tail(lines), sep)

\* text.split("\n")
SplitLines(text) ==
    LET breaks == {i \in 1..Len(text) : text[i] = NewLine}
        Start(k) == IF k = 1 THEN 1
                    ELSE 1 + CHOOSE i \in breaks : Cardinality({j \in breaks : j < i}) = k - 2
        Stop(k) == IF k = Cardinality(breaks) + 1 THEN Len(text)
                   ELSE (CHOOSE i \in breaks : Cardinality({j \in breaks : j < i}) = k - 1) - 1
    IN [k \in 1..(Cardinality(breaks) + 1) |-> SubSeq(text, Start(k), Stop(k))]

\* RemoveDuplicates that keeps the last occurrence of a URL
RECURSIVE RemoveDuplicates_keep_last(_)
RemoveDuplicates_keep_last(urls) ==
    IF urls = <<>> THEN <<>>
    ELSE IF \E k \in 2..Len(urls) : urls[k] = urls[1]
        THEN RemoveDuplicates_keep_last(Tail(urls))
    ELSE <<urls[1]>> \o RemoveDuplicates_keep_last(Tail(urls))

\* "Remove duplicates while preserving order": the loop over urls with seen
RECURSIVE RemoveDuplicates(_)
RemoveDuplicates(urls) ==
    IF urls = <<>> THEN <<>>
    ELSE LET before == RemoveDuplicates(SubSeq(urls, 1, Len(urls) - 1))
             url == urls[Len(urls)]
         IN IF \E k \in 1..Len(before) : before[k] = url THEN before
            ELSE Append(before, url)

\* f'- <a href="{url}" target="_blank" rel="noopener noreferrer">{title}</a>'
MarkdownLink(url, title) ==
    <<"-"," ","<","a"," ","h","r","e","f","=","\"">> \o url \o <<"\""," ","t","a","r","g","e","t","=","\"","_","b","l","a","n","k","\""," ","r","e","l","=","\"","n","o","o","p","e","n","e","r"," ","n","o","r","e","f","e","r","r","e","r","\"",">">>
    \o title \o <<"<","/","a",">">>

\* format_urls.format_urls_to_markdown(urls): [text, unique_urls, markdown_links, events]
Formatted(unique, links, events) ==
    [text |-> JoinWith(links, <<NewLine>>), unique_urls |-> unique,
     markdown_links |-> links, events |-> events]

NothingFormatted ==
    [text |-> <<>>, unique_urls |-> <<>>, markdown_links |-> <<>>, events |-> <<>>]

format_urls_to_markdown(urls) ==
    LET Links(unique) ==
            Formatted(unique,
                      [k \in 1..Len(unique) |->
                            MarkdownLink(unique[k], generate_title_for_url(unique[k]).title)],
                      <<>>)
    IN IF urls = <<>> THEN NothingFormatted ELSE Links(RemoveDuplicates(urls))

\* the requests and pauses of the loop of format_urls_to_markdown_smart from
\* its i-th round on; nets[url] is the network the call for url meets
\* the events of the rounds of a loop, one after the other
RECURSIVE EventsOf(_, _)
EventsOf(rounds, i) ==
    IF i > Len(rounds) THEN <<>> ELSE rounds[i].events \o EventsOf(rounds, i + 1)

\* format_urls_to_markdown_smart that gives up at the first URL whose request
\* brought no page: the entries made up to there are all it returns
format_urls_to_markdown_smart_fail_fast(urls, nets) ==
    LET Failed(url, result) ==
            result.events # <<>> /\ (nets[url].r1 # "200" \/ ~nets[url].page.readable)
        Round(unique, i, result) ==
            [link |-> MarkdownLink(unique[i], result.title), events |-> result.events,
             failed |-> Failed(unique[i], result)]
        Upto(unique, rounds, stops) ==
            IF stops = {} THEN Formatted(unique, [k \in 1..Len(rounds) |-> rounds[k].link],
                                         EventsOf(rounds, 1))
            ELSE Formatted(SubSeq(unique, 1, Min(stops) - 1),
                           [k \in 1..(Min(stops) - 1) |-> rounds[k].link],
                           EventsOf(SubSeq(rounds, 1, Min(stops)), 1))
        Stopped(unique, rounds) ==
            Upto(unique, rounds, {i \in 1..Len(rounds) : rounds[i].failed})
        Loop(unique) ==
            Stopped(unique,
                    [i \in 1..Len(unique) |->
                        Round(unique, i,
                              generate_smart_title_for_url(unique[i], TRUE, nets[unique[i]]))])
    IN IF urls = <<>> THEN NothingFormatted ELSE Loop(RemoveDuplicates(urls))

\* smart_url_formatter.format_urls_to_markdown_smart(urls); nets[url] is the
\* network the call for url meets
format_urls_to_markdown_smart(urls, nets) ==
    LET Round(unique, i, result) ==
            [link |-> MarkdownLink(unique[i], result.title),
             events |-> result.events
                        \o (IF should_extract_metadata(unique[i]) /\ i < Len(unique)
                            THEN <<SleepEvent("format_urls_to_markdown_smart", 10)>>
                            ELSE <<>>)]
        Done(unique, rounds) ==
            Formatted(unique, [k \in 1..Len(rounds) |-> rounds[k].link], EventsOf(rounds, 1))
        Loop(unique) ==
            Done(unique,
                 [i \in 1..Len(unique) |->
                    Round(unique, i,
                          generate_smart_title_for_url(unique[i], TRUE, nets[unique[i]]))])
    IN IF urls = <<>> THEN NothingFormatted ELSE Loop(RemoveDuplicates(urls))

\* enhanced_url_formatter.format_urls_to_markdown_enhanced(urls, use_metadata)
format_urls_to_markdown_enhanced(urls, use_metadata, nets) ==
    LET Round(unique, i, result) ==
            [link |-> MarkdownLink(unique[i], result.title),
             events |-> result.events
                        \o (IF use_metadata /\ i < Len(unique)
                            THEN <<SleepEvent("format_urls_to_markdown_enhanced", 5)>>
                            ELSE <<>>)]
        Done(unique, rounds) ==
            Formatted(unique, [k \in 1..Len(rounds) |-> rounds[k].link], EventsOf(rounds, 1))
        Loop(unique) ==
            Done(unique,
                 [i \in 1..Len(unique) |->
                    Round(unique, i,
                          generate_enhanced_title_for_url(unique[i], use_metadata,
                                                          nets[unique[i]]))])
    IN IF urls = <<>> THEN NothingFormatted ELSE Loop(RemoveDuplicates(urls))

---------------------------------------------------------------------------
(* hybrid_workflow.process_with_hybrid_approach                            *)

LinksHeading == <<"#","#"," ","L","i","n","k","s"," ","f","r","o","m"," ","O","f","f","i","c","e"," ","H","o","u","r","s">>
ArchiveHeading == <<"#","#"," ","A","r","c","h","i","v","e">>
OrderNote == <<"*","P","r","e","s","e","n","t","e","d"," ","i","n"," ","t","h","e"," ","o","r","d","e","r"," ","t","h","e","y"," ","w","e","r","e"," ","d","i","s","c","u","s","s","e","d"," ","d","u","r","i","n","g"," ","t","h","e"," ","e","p","i","s","o","d","e","*">>

\* the loop over the lines of the file (lines 312 to 326) from line i on
RECURSIVE ReplaceSection(_, _, _, _)
ReplaceSection(lines, i, skip_until_archive, new_section) ==
    IF i > Len(lines) THEN <<>>
    ELSE IF StartsWith(lines[i], LinksHeading)
        THEN <<new_section>> \o ReplaceSection(lines, i + 1, TRUE, new_section)
    ELSE IF StartsWith(lines[i], ArchiveHeading) /\ skip_until_archive
        THEN <<lines[i]>> \o ReplaceSection(lines, i + 1, FALSE, new_section)
    ELSE IF skip_until_archive
        THEN ReplaceSection(lines, i + 1, skip_until_archive, new_section)
    ELSE <<lines[i]>> \o ReplaceSection(lines, i + 1, skip_until_archive, new_section)

\* the titles the dry run prints: generate_smart_title_for_url for smart_urls[:3]
DryRunEvents(smart_urls, nets) ==
    EventsOf([i \in 1..(IF Len(smart_urls) > 3 THEN 3 ELSE Len(smart_urls)) |->
                generate_smart_title_for_url(smart_urls[i], TRUE, nets[smart_urls[i]])], 1)

\* process_with_hybrid_approach(input_file, urls, dry_run), content being the
\* text of input_file: [content, smart_urls, fast_urls, all_formatted, events]
process_with_hybrid_approach(content, urls, dry_run, nets) ==
    LET NotSmart(url) == ~should_extract_metadata(url)
        Written(smart_urls, fast_urls, all_formatted, events) ==
            [content |-> JoinWith(ReplaceSection(SplitLines(content), 1, FALSE,
                                      LinksHeading \o <<NewLine>> \o OrderNote
                                      \o <<NewLine, NewLine>> \o all_formatted),
                                  <<NewLine>>),
             smart_urls |-> smart_urls, fast_urls |-> fast_urls,
             all_formatted |-> all_formatted, events |-> events]
        Combined(smart_urls, fast_urls, smart, fast) ==
            Written(smart_urls, fast_urls, smart.text \o fast.text,
                    smart.events \o fast.events)
        Analysed(smart_urls, fast_urls) ==
            IF dry_run
            THEN [content |-> content, smart_urls |-> smart_urls, fast_urls |-> fast_urls,
                  all_formatted |-> <<>>, events |-> DryRunEvents(smart_urls, nets)]
            ELSE Combined(smart_urls, fast_urls,
                          format_urls_to_markdown_smart(smart_urls, nets),
                          format_urls_to_markdown_smart(fast_urls, nets))
    IN Analysed(SelectSeq(urls, should_extract_metadata), SelectSeq(urls, NotSmart))

---------------------------------------------------------------------------
(* Specification SpecBatch: one call of a batch formatter or of the hybrid *)
(* workflow on a list of URLs, over the weekly file doc.                   *)

MaxUrls == 3

BatchCorpus == {U_openai, U_com, U_tweet}

RECURSIVE ListsUpTo(_)
ListsUpTo(n) ==
    IF n = 0 THEN {<<>>}
    ELSE ListsUpTo(n - 1) \cup [1..n -> BatchCorpus]

\* the lists a call is given: every list of at most MaxUrls URLs, repeats included
UrlLists == ListsUpTo(MaxUrls)

N_up == [r1 |-> "200", r2 |-> "200",
         page |-> Page(T_og, None, <<>>, T_some, D_mid, None), found |-> W_long,
         path |-> FALSE]
N_down == [r1 |-> "timeout", r2 |-> "timeout", page |-> UnreadablePage, found |-> None,
           path |-> FALSE]

\* the network each URL of a run is behind
BatchNets == [BatchCorpus -> {N_up, N_down}]

\* a weekly file whose links section still holds raw URLs
RawDoc ==
    JoinWith(<<<<"#"," ","O","p","e","n"," ","D","i","s","r","u","p","t","i","o","n"," ","W","e","e","k","l","y">>, <<>>, LinksHeading, U_com, U_openai, U_tweet,
               <<>>, ArchiveHeading, <<"-"," ","2","0","2","5","-","1","0","-","2","3">>>>, <<NewLine>>)

InitBatch ==
    /\ pc = "idle"
    /\ call = NoCall
    /\ ret = NoRet
    /\ log = <<>>
    /\ unique_urls = <<>>
    /\ markdown_links = <<>>
    /\ doc = RawDoc
    /\ content_len = 0
    /\ weekly_dir = NoFiles

FormatUrlsToMarkdown(urls, result) ==
    /\ pc = "idle"
    /\ pc' = "done"
    /\ call' = [fn |-> "format_urls_to_markdown", urls |-> urls]
    /\ ret' = [text |-> result.text]
    /\ unique_urls' = result.unique_urls
    /\ markdown_links' = result.markdown_links
    /\ UNCHANGED <<log, doc, content_len, weekly_dir>>

FormatUrlsToMarkdownSmart(urls, nets, result) ==
    /\ pc = "idle"
    /\ pc' = "done"
    /\ call' = [fn |-> "format_urls_to_markdown_smart", urls |-> urls, nets |-> nets]
    /\ ret' = [text |-> result.text]
    /\ unique_urls' = result.unique_urls
    /\ markdown_links' = result.markdown_links
    /\ log' = log \o result.events
    /\ UNCHANGED <<doc, content_len, weekly_dir>>

FormatUrlsToMarkdownEnhanced(urls, use_metadata, nets, result) ==
    /\ pc = "idle"
    /\ pc' = "done"
    /\ call' = [fn |-> "format_urls_to_markdown_enhanced", urls |-> urls,
                use_metadata |-> use_metadata, nets |-> nets]
    /\ ret' = [text |-> result.text]
    /\ unique_urls' = result.unique_urls
    /\ markdown_links' = result.markdown_links
    /\ log' = log \o result.events
    /\ UNCHANGED <<doc, content_len, weekly_dir>>

\* the HTML file markdown_to_html.py is then asked to write is not in this state
ProcessWithHybridApproach(urls, dry_run, nets, result) ==
    /\ pc = "idle"
    /\ pc' = "done"
    /\ call' = [fn |-> "process_with_hybrid_approach", urls |-> urls, dry_run |-> dry_run,
                nets |-> nets]
    /\ ret' = [text |-> result.all_formatted]
    /\ doc' = result.content
    /\ log' = log \o result.events
    /\ UNCHANGED <<unique_urls, markdown_links, content_len, weekly_dir>>

NextBatch ==
    \/ \E urls \in UrlLists : FormatUrlsToMarkdown(urls, format_urls_to_markdown(urls))
    \/ \E urls \in UrlLists, nets \in BatchNets :
            FormatUrlsToMarkdownSmart(urls, nets, format_urls_to_markdown_smart(urls, nets))
    \/ \E urls \in UrlLists, use_metadata \in BOOLEAN, nets \in BatchNets :
            FormatUrlsToMarkdownEnhanced(urls, use_metadata, nets,
                format_urls_to_markdown_enhanced(urls, use_metadata, nets))
    \/ \E urls \in UrlLists, dry_run \in BOOLEAN, nets \in BatchNets :
            ProcessWithHybridApproach(urls, dry_run, nets,
                process_with_hybrid_approach(doc, urls, dry_run, nets))

SpecBatch == InitBatch /\ [][NextBatch]_vars

---------------------------------------------------------------------------
(* Specification SpecExtract: one call of extract_title_from_url on a page *)
(* whose title sources are each absent, blank or filled.                   *)

LdScripts ==
    {<<>>,
     <<JsonLd(T_headline, T_name, None)>>,
     <<JsonLd(T_blank, T_name, None)>>,
     <<InvalidScript, JsonLd(None, None, T_headline)>>,
     <<JsonLd(T_blank, None, None), JsonLd(None, T_name, None)>>}

ExtractPages ==
    {Page(og, card, ld, tag, desc, ogdesc) :
        og \in {None, T_blank, T_og}, card \in {None, T_card}, ld \in LdScripts,
        tag \in {None, T_site, T_suffix, T_home}, desc \in {None, D_short, D_long},
        ogdesc \in {None, D_og}}

ExtractNets ==
    [r1 : {"200"}, r2 : {"200"}, page : ExtractPages, found : {None}, path : {FALSE}]
    \cup [r1 : Outcomes, r2 : {"200", "timeout"},
          page : {Page(None, None, <<>>, T_some, None, None), UnreadablePage},
          found : {None}, path : {FALSE}]

ExtractCorpus == {U_openai, U_com}

InitExtract ==
    /\ pc = "idle"
    /\ call = NoCall
    /\ ret = NoRet
    /\ log = <<>>
    /\ unique_urls = <<>>
    /\ markdown_links = <<>>
    /\ doc = <<>>
    /\ content_len = 0
    /\ weekly_dir = NoFiles

ExtractTitleFromUrl(url, net, result) ==
    /\ pc = "idle"
    /\ pc' = "done"
    /\ call' = [fn |-> "extract_title_from_url", url |-> url, net |-> net]
    /\ ret' = [title |-> result.title, source |-> result.source,
               cleaned |-> result.cleaned, described |-> result.described]
    /\ log' = log \o result.events
    /\ UNCHANGED <<unique_urls, markdown_links, doc, content_len, weekly_dir>>

NextExtract ==
    \E url \in ExtractCorpus, net \in ExtractNets :
        ExtractTitleFromUrl(url, net, extract_title_from_url(url, net))

SpecExtract == InitExtract /\ [][NextExtract]_vars

---------------------------------------------------------------------------
(* Specification SpecRead: the loop that reads the body of a response, one *)
(* step per chunk of response.iter_content.  The text read is modelled by  *)
(* its length, which is all the loop tests.                                *)

\* max_size and chunk_size of the two read loops
ReadBudget(fn) ==
    IF fn = "extract_title_from_url" THEN [max_size |-> 16384, chunk_size |-> 2048]
    ELSE [max_size |-> 8192, chunk_size |-> 1024]

\* the longest body a response has
MaxBody == 40000

\* the lengths of the bodies read: empty, short, and around the two budgets
BodySizes == {0, 1000, 8191, 8192, 8193, 9216, 16383, 16384, 16385, 18432, 20000, MaxBody}

InitRead ==
    /\ pc = "idle"
    /\ call = NoCall
    /\ ret = NoRet
    /\ log = <<>>
    /\ unique_urls = <<>>
    /\ markdown_links = <<>>
    /\ doc = <<>>
    /\ content_len = 0
    /\ weekly_dir = NoFiles

\* content = "" before the loop, the response (status 200) being there
StartRead(fn, body) ==
    /\ pc = "idle"
    /\ pc' = "reading"
    /\ call' = [fn |-> fn, body |-> body]
    /\ content_len' = 0
    /\ UNCHANGED <<ret, log, unique_urls, markdown_links, doc, weekly_dir>>

\* one turn of the loop: content += chunk, then the test that leaves the loop.
\* A chunk is at most chunk_size characters of what is left of the body.
ReadChunk ==
    /\ pc = "reading"
    /\ \E n \in {ReadBudget(call.fn).chunk_size, ReadBudget(call.fn).chunk_size \div 2,
                  call.body - content_len} :
        /\ n > 0
        /\ n <= ReadBudget(call.fn).chunk_size
        /\ n <= call.body - content_len
        /\ content_len' = content_len + n
        /\ IF content_len + n > ReadBudget(call.fn).max_size
           THEN /\ pc' = "done"
                /\ ret' = [content_len |-> content_len + n, stopped |-> "break"]
           ELSE /\ pc' = "reading"
                /\ UNCHANGED ret
    /\ UNCHANGED <<call, log, unique_urls, markdown_links, doc, weekly_dir>>

\* the iterator is exhausted: the loop ends with the whole body read
EndOfBody ==
    /\ pc = "reading"
    /\ content_len = call.body
    /\ pc' = "done"
    /\ ret' = [content_len |-> content_len, stopped |-> "end"]
    /\ UNCHANGED <<call, log, unique_urls, markdown_links, doc, content_len, weekly_dir>>

NextRead ==
    \/ \E fn \in {"extract_title_from_url", "extract_metadata_from_url"}, body \in BodySizes :
            StartRead(fn, body)
    \/ ReadChunk
    \/ EndOfBody

SpecRead == InitRead /\ [][NextRead]_vars

---------------------------------------------------------------------------
(* Specification SpecOutcomes: format_urls_to_markdown_smart on a batch in *)
(* which every URL meets one of the outcomes a request can have.           *)

\* a response with status 404, a refused connection, and a response with
\* status 200 whose body cannot be read as a page
N_404 == [r1 |-> "404", r2 |-> "404", page |-> UnreadablePage, found |-> None,
          path |-> FALSE]
N_refused == [r1 |-> "error", r2 |-> "error", page |-> UnreadablePage, found |-> None,
              path |-> FALSE]
N_garbled == [r1 |-> "200", r2 |-> "200", page |-> UnreadablePage, found |-> None,
              path |-> FALSE]

\* every outcome for each URL that is requested (no request goes to U_com)
OutcomeNets ==
    {nets \in [BatchCorpus -> {N_up, N_down, N_404, N_refused, N_garbled}] :
        nets[U_com] = N_up}

NextOutcomes ==
    \E urls \in UrlLists, nets \in OutcomeNets :
        FormatUrlsToMarkdownSmart(urls, nets, format_urls_to_markdown_smart(urls, nets))

SpecOutcomes == InitBatch /\ [][NextOutcomes]_vars


---------------------------------------------------------------------------
(* Properties of a batch (SpecBatch)                                       *)

\* the href values of the link entries of a text, in the order they stand in it
HrefsOf(text) ==
    LET prefix == <<"<","a"," ","h","r","e","f","=","\"">>
        starts == {i \in 1..Len(text) : StartsWithAt(text, i, prefix)}
        Start(k) == CHOOSE i \in starts : Cardinality({j \in starts : j < i}) = k - 1
        Quote(i) == Min({j \in (i + Len(prefix))..Len(text) : text[j] = "\""})
    IN [k \in 1..Cardinality(starts) |->
            SubSeq(text, Start(k) + Len(prefix), Quote(Start(k)) - 1)]

\* the URLs of a list at the places where they stand for the first time
FirstOccurrences(urls) ==
    LET firsts == {i \in 1..Len(urls) : \A j \in 1..(i - 1) : urls[j] # urls[i]}
    IN [k \in 1..Cardinality(firsts) |->
            urls[CHOOSE i \in firsts : Cardinality({j \in firsts : j < i}) = k - 1]]

\* the part of the weekly file from the links heading to the archive heading
LinksSectionOf(text) ==
    LET Heads(h) == {i \in 1..Len(text) : StartsWithAt(text, i, h)
                                           /\ (i = 1 \/ text[i - 1] = NewLine)}
        From(a) == SubSeq(text, a,
                          IF {i \in Heads(ArchiveHeading) : i > a} = {} THEN Len(text)
                          ELSE Min({i \in Heads(ArchiveHeading) : i > a}) - 1)
    IN IF Heads(LinksHeading) = {} THEN <<>> ELSE From(Min(Heads(LinksHeading)))

\* C1: format_urls_to_markdown, format_urls_to_markdown_smart and
\* format_urls_to_markdown_enhanced each emit exactly one entry per distinct
\* URL of the list they are given, the entries standing in the order in which
\* the URLs first appear in the list; the empty list yields the empty string.
C1_OneEntryPerDistinctUrl ==
    (pc = "done" /\ call.fn \in {"format_urls_to_markdown", "format_urls_to_markdown_smart",
                                 "format_urls_to_markdown_enhanced"}) =>
        /\ HrefsOf(ret.text) = FirstOccurrences(call.urls)
        /\ Len(HrefsOf(ret.text)) = Cardinality({call.urls[i] : i \in 1..Len(call.urls)})
        /\ Len(markdown_links) = Len(HrefsOf(ret.text))
        /\ \A k \in 1..Len(markdown_links) :
                /\ StartsWith(markdown_links[k], <<"-"," ","<","a"," ","h","r","e","f","=","\"">> \o unique_urls[k] \o <<"\""," ">>)
                /\ Len(HrefsOf(markdown_links[k])) = 1
        /\ (call.urls = <<>> => ret.text = <<>>)

\* a list that repeats its first URL after another one came out as two entries
C1_Witness ==
    /\ pc = "done"
    /\ call.fn = "format_urls_to_markdown_smart"
    /\ call.urls = <<U_com, U_openai, U_com>>
    /\ HrefsOf(ret.text) = <<U_com, U_openai>>

\* C2: after process_with_hybrid_approach (no dry run) the link entries of the
\* "Links from Office Hours" section stand in the same relative order as the
\* first occurrences of their URLs in the list, whatever mix of URLs with
\* should_extract_metadata true and false the list holds.
C2_HybridKeepsInputOrder ==
    (pc = "done" /\ call.fn = "process_with_hybrid_approach" /\ ~call.dry_run) =>
        LET hrefs == HrefsOf(LinksSectionOf(doc))
            First(url) == Min({i \in 1..Len(call.urls) : call.urls[i] = url})
        IN /\ \A k \in 1..Len(hrefs) : \E i \in 1..Len(call.urls) : call.urls[i] = hrefs[k]
           /\ \A a, b \in 1..Len(hrefs) : a < b => First(hrefs[a]) < First(hrefs[b])

\* C23: the links section that process_with_hybrid_approach writes (no dry
\* run) has exactly one entry line per distinct URL of the list: every entry
\* begins a line of its own, so that two consecutive entries are separated by
\* a newline, the last entry of the smart extraction and the first of the
\* fast formatting included.
C23_OneEntryPerLine ==
    (pc = "done" /\ call.fn = "process_with_hybrid_approach" /\ ~call.dry_run) =>
        LET Entries(section) ==
                /\ Len(HrefsOf(section))
                     = Cardinality({call.urls[i] : i \in 1..Len(call.urls)})
                /\ \A i \in 1..Len(section) :
                        StartsWithAt(section, i, <<"<","a"," ","h","r","e","f","=","\"">>) =>
                            /\ i > 3
                            /\ SubSeq(section, i - 3, i - 1) = <<NewLine, "-", " ">>
        IN Entries(LinksSectionOf(doc))


---------------------------------------------------------------------------
(* Properties of one call (SpecTitle)                                      *)

\* C3: generate_title_for_url_original (both copies) returns the title of the
\* first stage that matches the URL, in the order Twitter/X, arXiv, GitHub,
\* YouTube, curated table, domain table, generic label: the stage that gave
\* the title matches, no earlier stage matches, and the title is that stage's.
C3_FirstMatchingStageWins ==
    (pc = "done" /\ call.fn \in {"generate_title_for_url_original",
                                 "enhanced_url_formatter.generate_title_for_url_original"}) =>
        LET url == call.url
            title == ret.title
            StageOrder == <<"twitter", "arxiv", "github", "youtube", "curated", "domain", "generic">>
            FirstEntry(table, s, k) ==
                /\ IsSubstr(table[k][1], s)
                /\ \A j \in 1..(k - 1) : ~IsSubstr(table[j][1], s)
            Matches(stage) ==
                CASE stage = "twitter" -> IsSubstr(<<"t","w","i","t","t","e","r",".","c","o","m">>, url) \/ IsSubstr(<<"x",".","c","o","m">>, url)
                  [] stage = "arxiv" -> IsSubstr(<<"a","r","x","i","v",".","o","r","g">>, url)
                  [] stage = "github" -> IsSubstr(<<"g","i","t","h","u","b",".","c","o","m">>, url)
                  [] stage = "youtube" -> IsSubstr(<<"y","o","u","t","u","b","e",".","c","o","m">>, url) \/ IsSubstr(<<"y","o","u","t","u",".","b","e">>, url)
                  [] stage = "curated" ->
                        \E k \in 1..Len(CURATED_PATTERNS) : IsSubstr(CURATED_PATTERNS[k][1], url)
                  [] stage = "domain" ->
                        \E k \in 1..Len(DOMAIN_FALLBACKS) :
                            IsSubstr(DOMAIN_FALLBACKS[k][1], get_domain(url))
                  [] stage = "generic" -> TRUE
            TitleOf(stage) ==
                CASE stage = "twitter" -> IsSubstr(<<" ",EmDash," ","A","I"," ">>, title)
                  [] stage = "arxiv" -> StartsWith(title, <<"a","r","X","i","v",":"," ","R","e","s","e","a","r","c","h"," ","P","a","p","e","r">>)
                  [] stage = "github" -> StartsWith(title, <<"G","i","t","H","u","b">>)
                  [] stage = "youtube" -> title = <<"Y","o","u","T","u","b","e",":"," ","A","I"," ","V","i","d","e","o"," ","C","o","n","t","e","n","t">>
                  [] stage = "curated" ->
                        \E k \in 1..Len(CURATED_PATTERNS) :
                            FirstEntry(CURATED_PATTERNS, url, k) /\ title = CURATED_PATTERNS[k][2]
                  [] stage = "domain" ->
                        \E k \in 1..Len(DOMAIN_FALLBACKS) :
                            /\ FirstEntry(DOMAIN_FALLBACKS, get_domain(url), k)
                            /\ title = DOMAIN_FALLBACKS[k][2]
                  [] stage = "generic" ->
                        \/ title = <<"A","I"," ","R","e","s","o","u","r","c","e">>
                        \/ \E suffix \in {<<":"," ","A","I"," ","P","l","a","t","f","o","r","m">>, <<":"," ","A","c","a","d","e","m","i","c"," ","R","e","s","e","a","r","c","h">>,
                                          <<":"," ","R","e","s","e","a","r","c","h"," ","O","r","g","a","n","i","z","a","t","i","o","n">>,
                                          <<":"," ","R","e","s","e","a","r","c","h"," ","P","u","b","l","i","c","a","t","i","o","n">>, <<":"," ","A","I"," ","R","e","s","o","u","r","c","e">>} :
                                EndsWith(title, suffix)
        IN \E i \in 1..Len(StageOrder) :
                /\ ret.rule = StageOrder[i]
                /\ Matches(StageOrder[i])
                /\ TitleOf(StageOrder[i])
                /\ \A j \in 1..(i - 1) : ~Matches(StageOrder[j])

\* a URL that matches both the curated and the domain table got the curated title
C3_Witness ==
    /\ pc = "done"
    /\ call.fn = "generate_title_for_url_original"
    /\ call.url = U_curated
    /\ FirstKeyIn(DOMAIN_FALLBACKS, get_domain(U_curated)) # None
    /\ ret.rule = "curated"

\* C4: format_urls.generate_title_for_url returns the curated fixed title for
\* every URL that matches no platform rule and holds a curated substring key,
\* also when the host holds a key of DOMAIN_TITLES.
C4_CuratedBeforeDomainTable ==
    (/\ pc = "done"
     /\ call.fn = "format_urls.generate_title_for_url"
     /\ ~MatchesTwitterPattern(call.url) /\ ~MatchesArxivPattern(call.url)
     /\ ~MatchesArxivPdfPattern(call.url) /\ ~MatchesGithubPattern(call.url)
     /\ ~MatchesYoutubePattern(call.url) /\ ~MatchesHuggingfacePattern(call.url)
     /\ \E k \in 1..Len(SPECIFIC_URL_PATTERNS) : IsSubstr(SPECIFIC_URL_PATTERNS[k][1], call.url))
    => \E k \in 1..Len(SPECIFIC_URL_PATTERNS) :
            /\ IsSubstr(SPECIFIC_URL_PATTERNS[k][1], call.url)
            /\ ret.title = SPECIFIC_URL_PATTERNS[k][2]

\* C5: when enrichment is disabled or yields nothing (for a Twitter/X URL:
\* scraping is disabled or finds no text; for any other URL:
\* should_extract_metadata is false or extract_title_from_url returns None),
\* generate_smart_title_for_url returns exactly the title
\* generate_title_for_url_original returns.  Stated for the calls in which
\* parse_url_path_to_title finds no title.
C5_FallbackEqualsOriginal ==
    (/\ pc = "done"
     /\ call.fn = "generate_smart_title_for_url"
     /\ ~call.net.path
     /\ IF IsTwitterUrl(call.url)
        THEN \/ ~call.enable_twitter_scraping
             \/ scrape_tweet_content(call.url, call.net).text = None
        ELSE \/ ~should_extract_metadata(call.url)
             \/ extract_title_from_url(call.url, call.net).title = None)
    => ret.title = generate_title_for_url_original(call.url).title

\* C6: while generate_smart_title_for_url (default arguments) makes the title
\* of a URL whose host matches AVOID_DOMAINS, no HTTP request goes to that URL.
C6_NoRequestToDeniedHost ==
    (/\ pc = "done"
     /\ call.fn = "generate_smart_title_for_url"
     /\ call.enable_twitter_scraping
     /\ \E avoid \in AVOID_DOMAINS : IsSubstr(avoid, get_domain(call.url)))
    => \A k \in 1..Len(log) : ~(log[k].ev \in {"GET", "HEAD"} /\ log[k].url = call.url)

\* C7: generate_smart_title_for_url calls extract_title_from_url only for a URL
\* for which should_extract_metadata is true (a host on the allow list), and
\* should_extract_metadata is false for every host that holds a deny-list
\* entry, whatever part of the allow list the host matches as well.
C7_DenyListFirst ==
    (pc = "done" /\ call.fn = "generate_smart_title_for_url") =>
        LET host == get_domain(call.url)
            Denied == \E avoid \in AVOID_DOMAINS : IsSubstr(avoid, host)
            Allowed ==
                \/ \E safe \in SAFE_DOMAINS : IsSubstr(safe, host)
                \/ \E tld \in {<<".","e","d","u">>, <<".","o","r","g">>, <<".","a","i">>} : EndsWith(host, tld)
                \/ IsSubstr(<<"r","e","s","e","a","r","c","h">>, host) \/ IsSubstr(<<"l","a","b">>, host)
                \/ \E ai_domain \in ai_company_domains : IsSubstr(ai_domain, host)
            Extracted == \E k \in 1..Len(log) : log[k].by = "extract_title_from_url"
        IN /\ Extracted => should_extract_metadata(call.url)
           /\ Extracted => (Allowed /\ ~Denied)
           /\ Denied => ~should_extract_metadata(call.url)

\* a host that holds a deny-list entry and matches the allow list was left alone
C7_Witness ==
    /\ pc = "done"
    /\ call.fn = "generate_smart_title_for_url"
    /\ call.url = U_fb_research
    /\ IsSubstr(<<"f","a","c","e","b","o","o","k",".","c","o","m">>, get_domain(call.url))
    /\ IsSubstr(<<"r","e","s","e","a","r","c","h">>, get_domain(call.url))
    /\ call.net.r1 = "200"
    /\ log = <<>>

\* C8: the Pattern Resolver (generate_title_for_url_original and format_urls.
\* generate_title_for_url) returns a non-empty title for every URL, the one
\* with an empty host and the one urlparse rejects included, with no request
\* and no file touched; with an empty host and no platform or curated rule
\* matching, the title is exactly "AI Resource".
C8_ResolverTotalNoIO ==
    (pc = "done" /\ call.fn \in {"generate_title_for_url_original",
                                 "enhanced_url_formatter.generate_title_for_url_original",
                                 "format_urls.generate_title_for_url"}) =>
        /\ ret.title # None
        /\ Len(ret.title) > 0
        /\ log = <<>>
        /\ doc = <<>>
        /\ (get_domain(call.url) = <<>> /\ ret.rule \in {"domain", "generic"})
                => ret.title = <<"A","I"," ","R","e","s","o","u","r","c","e">>

\* a URL with an empty host got the bare label
C8_Witness ==
    /\ pc = "done"
    /\ call.fn = "generate_title_for_url_original"
    /\ call.url = U_empty_host
    /\ get_domain(call.url) = <<>>
    /\ ret.title = <<"A","I"," ","R","e","s","o","u","r","c","e">>

\* C24: every title that generate_enhanced_title_for_url makes of the title
\* of a page is at most 80 characters long: a page title that is longer,
\* once its suffixes are removed, is cut to 77 characters and "...", and
\* nothing lengthens the title after that.
C24_EnrichedTitleWithinBudget ==
    (pc = "done" /\ call.fn = "generate_enhanced_title_for_url" /\ ret.rule = "metadata") =>
        LET Cut(cleaned) ==
                /\ Len(ret.title) <= 80
                /\ Len(cleaned) > 80 => ret.title = SubSeq(cleaned, 1, 77) \o <<".",".",".">>
        IN Cut(StripDomainSuffix(StripSiteSuffix(Strip(call.net.page.title_tag))))


\* C26: format_urls.generate_title_for_url gives a URL https://arxiv.org/pdf/<id>
\* the title "arXiv PDF: Research Paper <id>" (the rule for arXiv PDFs is
\* reached) and a URL https://arxiv.org/abs/<id> the title
\* "arXiv: Research Paper <id>".
C26_ArxivPdfRuleReached ==
    (pc = "done" /\ call.fn = "format_urls.generate_title_for_url") =>
        LET Id(prefix) == SubSeq(call.url, Len(prefix) + 1, Len(call.url))
            Titled(prefix, label) ==
                (/\ StartsWith(call.url, prefix)
                 /\ Id(prefix) # <<>>
                 /\ \A k \in 1..Len(Id(prefix)) : Id(prefix)[k] \in Digits \cup {"."})
                    => ret.title = label \o Id(prefix)
        IN /\ Titled(<<"h","t","t","p","s",":","/","/","a","r","x","i","v",".","o","r","g","/","p","d","f","/">>, <<"a","r","X","i","v"," ","P","D","F",":"," ","R","e","s","e","a","r","c","h"," ","P","a","p","e","r"," ">>)
           /\ Titled(<<"h","t","t","p","s",":","/","/","a","r","x","i","v",".","o","r","g","/","a","b","s","/">>, <<"a","r","X","i","v",":"," ","R","e","s","e","a","r","c","h"," ","P","a","p","e","r"," ">>)


\* C28: generate_title_for_url_original (both copies) and
\* generate_smart_title_for_url give a URL a Twitter/X title only if the
\* host of the URL is twitter.com or x.com or a subdomain of one of them; a
\* URL whose host merely contains one of the two names is resolved by the
\* other rules.
C28_TwitterTitleOnlyForTwitterHost ==
    (/\ pc = "done"
     /\ call.fn \in {"generate_title_for_url_original",
                     "enhanced_url_formatter.generate_title_for_url_original",
                     "generate_smart_title_for_url"}
     /\ ret.rule \in {"twitter", "tweet_text", "display_name", "twitter_thread"}) =>
        LET OfTwitter(host) ==
                \E name \in {<<"t","w","i","t","t","e","r",".","c","o","m">>, <<"x",".","c","o","m">>} :
                    host = name \/ EndsWith(host, <<".">> \o name)
        IN /\ ~UrlParseRaises(call.url)
           /\ OfTwitter(Lower(Netloc(call.url)))


---------------------------------------------------------------------------
(* Properties of one extraction (SpecExtract)                              *)

\* C10: extract_title_from_url takes the title from the highest-priority
\* source that is present with non-empty content, in the order Open Graph
\* title, Twitter Card title, JSON-LD (headline, name, title), HTML <title>;
\* the meta description replaces it only when the cleaned title equals the
\* cleaned host name or is shorter than 10 characters and the description is
\* longer than 20 characters.
C10_HighestPrioritySourceWins ==
    (/\ pc = "done"
     /\ call.fn = "extract_title_from_url"
     /\ call.net.page.readable
     /\ \E k \in 1..Len(log) : log[k].ev = "GET"
     /\ \/ call.net.r1 = "200"
        \/ call.net.r1 \in {"404", "timeout"} /\ call.net.r2 = "200")
    => LET page == call.net.page
           NonEmpty(text) == text # None /\ Strip(text) # <<>>
           Highest ==
                IF NonEmpty(page.og_title) THEN "og:title"
                ELSE IF NonEmpty(page.twitter_title) THEN "twitter:title"
                ELSE IF \E k \in 1..Len(page.json_ld) :
                            /\ page.json_ld[k].valid
                            /\ \/ NonEmpty(page.json_ld[k].headline)
                               \/ NonEmpty(page.json_ld[k].name)
                               \/ NonEmpty(page.json_ld[k].title)
                    THEN "json-ld"
                ELSE IF NonEmpty(page.title_tag) THEN "title"
                ELSE "none"
       IN /\ ret.source = Highest
          /\ ret.described =>
                /\ \/ Lower(ret.cleaned) = Lower(clean_domain_of(get_domain(call.url)))
                   \/ Len(ret.cleaned) < 10
                /\ \E desc \in {page.description, page.og_description} :
                        desc # None /\ Len(Strip(desc)) > 20

---------------------------------------------------------------------------
(* Properties of the read loop (SpecRead)                                  *)

\* C11: the two read loops never hold more text of the response body than
\* their budget (8192 characters in extract_metadata_from_url, 16384 in
\* extract_title_from_url), whatever the length of the body and the chunks.
C11_ReadWithinBudget ==
    pc \in {"reading", "done"} => content_len <= ReadBudget(call.fn).max_size

---------------------------------------------------------------------------
(* Properties of the retry loop (SpecExtract)                              *)

\* C12: extract_title_from_url issues at most two GET requests for a URL,
\* the second only when the first attempt timed out; after a first response
\* that is not 200, or a connection error, it returns None with one request.
C12_SecondRequestOnlyAfterTimeout ==
    (pc = "done" /\ call.fn = "extract_title_from_url") =>
        LET gets == {k \in 1..Len(log) : log[k].ev = "GET"}
        IN /\ Cardinality(gets) <= 2
           /\ Cardinality(gets) = 2 => call.net.r1 = "timeout"
           /\ call.net.r1 \in {"404", "error"} =>
                    Cardinality(gets) = 1 /\ ret.title = None

---------------------------------------------------------------------------
(* Properties of a batch under every outcome (SpecOutcomes)                *)

\* the URLs of a batch for which the run logged a request
Requested == {log[k].url : k \in {j \in 1..Len(log) : log[j].ev = "GET"}}

\* C13: whatever each URL of the batch meets on the network (a timeout, a
\* connection error, a status other than 200, a body that cannot be parsed,
\* or a page), format_urls_to_markdown_smart ends and returns one entry, with
\* a title, for every distinct URL; the URLs after a failed one are processed
\* like the others, their requests included.
C13_FailureNeverStopsBatch ==
    (call.fn = "format_urls_to_markdown_smart") =>
        /\ pc = "done"
        /\ HrefsOf(ret.text) = FirstOccurrences(call.urls)
        /\ Len(markdown_links) = Cardinality({call.urls[i] : i \in 1..Len(call.urls)})
        /\ \A k \in 1..Len(markdown_links) :
                /\ Present(generate_smart_title_for_url(unique_urls[k], TRUE,
                                                        call.nets[unique_urls[k]]).title)
                /\ markdown_links[k] =
                        MarkdownLink(unique_urls[k],
                                     generate_smart_title_for_url(unique_urls[k], TRUE,
                                                                  call.nets[unique_urls[k]]).title)
        /\ \A k \in 1..Len(unique_urls) :
                (generate_smart_title_for_url(unique_urls[k], TRUE,
                                              call.nets[unique_urls[k]]).events # <<>>)
                    => unique_urls[k] \in Requested

\* a batch whose first URL runs into a refused connection and whose second
\* URL is requested and gets the title of its page
C13_Witness ==
    /\ pc = "done"
    /\ call.fn = "format_urls_to_markdown_smart"
    /\ call.urls = <<U_tweet, U_openai>>
    /\ call.nets[U_tweet] = N_refused
    /\ call.nets[U_openai] = N_up
    /\ Requested = {U_tweet, U_openai}
    /\ Len(markdown_links) = 2


\* C14: in a batch of format_urls_to_markdown_smart, whenever requests are
\* made for two URLs that follow one another in the batch, the fixed delay of
\* the batch loop lies between the requests for the first and those for the
\* second.
C14_DelayBetweenRequests ==
    (pc = "done" /\ call.fn = "format_urls_to_markdown_smart") =>
        \A k \in 1..(Len(unique_urls) - 1) :
            \A a, b \in 1..Len(log) :
                (/\ log[a].ev = "GET" /\ log[a].url = unique_urls[k]
                 /\ log[b].ev = "GET" /\ log[b].url = unique_urls[k + 1])
                    => \E c \in (a + 1)..(b - 1) :
                            /\ log[c].ev = "sleep"
                            /\ log[c].by = "format_urls_to_markdown_smart"

---------------------------------------------------------------------------
(* The scripts that read and write the files of weekly-links/: the text of *)
(* the weekly file is doc, and what a run prints and writes is logged.     *)

\* print(msg): the message that tells the outcome of a step
PrintEvent(by, msg) == [ev |-> "print", by |-> by, msg |-> msg]

\* path.write_text(text, encoding="utf-8")
WriteEvent(by, path, text) == [ev |-> "write", by |-> by, path |-> path, text |-> text]

\* the file a run reads, and the file --output-file names
InputFile == <<"w","e","e","k","l","y","-","l","i","n","k","s","/","2","0","2","5","-","1","0","-","1","7","-","l","i","n","k","s",".","m","d">>
OutputFile == <<"o","u","t","/","f","o","r","m","a","t","t","e","d",".","m","d">>

\* re.findall of https?:// and one or more characters other than white space
\* and < > " { } | \ ^ [ ] and the grave accent (written "U+0060" here)
extract_urls_from_text(text) ==
    LET UrlChar(i) ==
            /\ i <= Len(text)
            /\ ~IsSpace(text[i])
            /\ text[i] \notin {"<", ">", "\"", "{", "}", "|", "\\", "^", "U+0060", "[", "]"}
        Body(i) == IF StartsWithAt(text, i, <<"h","t","t","p","s",":","/","/">>) THEN i + 8
                   ELSE IF StartsWithAt(text, i, <<"h","t","t","p",":","/","/">>) THEN i + 7
                   ELSE 0
        Stop(i) == CHOOSE e \in Body(i)..Len(text) :
                        (\A k \in Body(i)..e : UrlChar(k)) /\ ~UrlChar(e + 1)
        Found(candidates) ==
            LET starts == {i \in candidates :
                                ~\E j \in candidates : j < i /\ i <= Stop(j)}
            IN [n \in 1..Cardinality(starts) |->
                    LET i == CHOOSE i \in starts :
                                    Cardinality({j \in starts : j < i}) = n - 1
                    IN SubSeq(text, i, Stop(i))]
    IN Found({i \in 1..Len(text) : Body(i) > 0 /\ UrlChar(Body(i))})

\* the loop over the lines of the file (format_urls.py, lines 304 to 320) from
\* line i on: [lines, replaced]
RECURSIVE ReplaceEitherSection(_, _, _, _)
ReplaceEitherSection(lines, i, skip_until_archive, new_section) ==
    IF i > Len(lines) THEN <<>>
    ELSE IF StartsWith(lines[i], LinksHeading) \/ StartsWith(lines[i], <<"#","#"," ","A","I"," ","I","n","d","u","s","t","r","y"," ","N","e","w","s">>)
        THEN <<new_section>> \o ReplaceEitherSection(lines, i + 1, TRUE, new_section)
    ELSE IF StartsWith(lines[i], ArchiveHeading) /\ skip_until_archive
        THEN <<lines[i]>> \o ReplaceEitherSection(lines, i + 1, FALSE, new_section)
    ELSE IF skip_until_archive
        THEN ReplaceEitherSection(lines, i + 1, skip_until_archive, new_section)
    ELSE <<lines[i]>> \o ReplaceEitherSection(lines, i + 1, skip_until_archive, new_section)

\* process_file(input_file, output_file, dry_run), content being the text of
\* input_file: [result, events]
process_file(content, output_file, dry_run) ==
    LET by == "process_file"
        Formatted_(urls, result) ==
            IF dry_run
            THEN [result |-> result,
                  events |-> <<PrintEvent(by, "Found URLs to format"),
                               PrintEvent(by, "--- Formatted Content Preview ---")>>]
            ELSE [result |-> result,
                  events |-> <<PrintEvent(by, "Found URLs to format"),
                               WriteEvent(by, IF output_file # None THEN output_file
                                              ELSE InputFile, result),
                               PrintEvent(by, "Formatted URLs written to")>>]
        Replaced(urls) ==
            Formatted_(urls,
                       JoinWith(ReplaceEitherSection(SplitLines(content), 1, FALSE,
                                    LinksHeading \o <<NewLine>> \o OrderNote
                                    \o <<NewLine, NewLine>> \o format_urls_to_markdown(urls).text),
                                <<NewLine>>))
        Extracted(urls) ==
            IF urls = <<>>
            THEN [result |-> content,
                  events |-> <<PrintEvent(by, "No URLs found in the file.")>>]
            ELSE Replaced(urls)
    IN Extracted(extract_urls_from_text(content))

\* weekly files: with the links section, with URLs and no section header,
\* with the section and no URL, and with the section under its other header
DocNoSection ==
    JoinWith(<<<<"#"," ","O","p","e","n"," ","D","i","s","r","u","p","t","i","o","n"," ","W","e","e","k","l","y">>, <<>>, U_openai, U_com, <<>>,
               ArchiveHeading, <<"-"," ","2","0","2","5","-","1","0","-","2","3">>>>, <<NewLine>>)

DocNoUrls ==
    JoinWith(<<<<"#"," ","O","p","e","n"," ","D","i","s","r","u","p","t","i","o","n"," ","W","e","e","k","l","y">>, <<>>, LinksHeading, <<>>,
               ArchiveHeading, <<"-"," ","2","0","2","5","-","1","0","-","2","3">>>>, <<NewLine>>)

DocNews ==
    JoinWith(<<<<"#"," ","O","p","e","n"," ","D","i","s","r","u","p","t","i","o","n"," ","W","e","e","k","l","y">>, <<>>, <<"#","#"," ","A","I"," ","I","n","d","u","s","t","r","y"," ","N","e","w","s">>, U_com, U_openai, <<>>,
               ArchiveHeading, <<"-"," ","2","0","2","5","-","1","0","-","2","3">>>>, <<NewLine>>)

\* the weekly file as the templates of weekly_links.py and of
\* enhance_markdown_content head its archive, and one without an archive
DocEmojiArchive ==
    JoinWith(<<<<"#"," ","O","p","e","n"," ","D","i","s","r","u","p","t","i","o","n"," ","W","e","e","k","l","y">>, <<>>, LinksHeading, U_com, U_openai, <<>>,
               <<"#","#"," ","U+1F5C3","U+FE0F"," ","A","r","c","h","i","v","e">>, <<"-"," ","2","0","2","5","-","1","0","-","2","3">>>>, <<NewLine>>)

DocNoArchive ==
    JoinWith(<<<<"#"," ","O","p","e","n"," ","D","i","s","r","u","p","t","i","o","n"," ","W","e","e","k","l","y">>, <<>>, LinksHeading, U_com, U_openai>>,
             <<NewLine>>)

Docs == {RawDoc, DocNoSection, DocNoUrls, DocNews, DocEmojiArchive, DocNoArchive}

---------------------------------------------------------------------------
(* weekly_links.py: the weekly file from the template, and the index       *)

\* datetime.strptime(text, DATE_FMT_FILE): [valid, year, month, day]; %Y is
\* four digits, %m and %d one or two, and the date is one of the calendar
strptime(text) ==
    LET NoDate == [valid |-> FALSE, year |-> 0, month |-> 0, day |-> 0]
        Value(c) == CHOOSE n \in 0..9 :
                        <<"0", "1", "2", "3", "4", "5", "6", "7", "8", "9">>[n + 1] = c
        Number(s) == IF Len(s) = 1 THEN Value(s[1])
                     ELSE IF Len(s) = 2 THEN 10 * Value(s[1]) + Value(s[2])
                     ELSE 1000 * Value(s[1]) + 100 * Value(s[2]) + 10 * Value(s[3])
                          + Value(s[4])
        IsNumber(s) == s # <<>> /\ \A i \in 1..Len(s) : s[i] \in Digits
        DaysIn(y, m) ==
            IF m = 2 THEN (IF y % 4 = 0 /\ (y % 100 # 0 \/ y % 400 = 0) THEN 29 ELSE 28)
            ELSE IF m \in {4, 6, 9, 11} THEN 30 ELSE 31
        Checked(y, m, d) ==
            IF y >= 1 /\ m \in 1..12 /\ d >= 1 /\ d <= DaysIn(y, m)
            THEN [valid |-> TRUE, year |-> y, month |-> m, day |-> d]
            ELSE NoDate
        Fields(y, m, d) ==
            IF /\ IsNumber(y) /\ IsNumber(m) /\ IsNumber(d)
               /\ Len(y) = 4 /\ Len(m) <= 2 /\ Len(d) <= 2
            THEN Checked(Number(y), Number(m), Number(d))
            ELSE NoDate
        Split(dashes) ==
            IF Cardinality(dashes) # 2 THEN NoDate
            ELSE LET a == Min(dashes)
                     b == Min(dashes \ {Min(dashes)})
                 IN Fields(SubSeq(text, 1, a - 1), SubSeq(text, a + 1, b - 1),
                           SubSeq(text, b + 1, Len(text)))
    IN Split({i \in 1..Len(text) : text[i] = "-"})

\* d.strftime(DATE_FMT_FILE) and d.strftime(DATE_FMT_DISPLAY), the year without
\* leading zeros
strftime(d, format) ==
    LET Digit(n) == <<"0", "1", "2", "3", "4", "5", "6", "7", "8", "9">>[n + 1]
        Two(n) == <<Digit(n \div 10), Digit(n % 10)>>
        Decimal(n) == IF n < 10 THEN <<Digit(n)>>
                      ELSE IF n < 100 THEN Two(n)
                      ELSE IF n < 1000 THEN <<Digit(n \div 100)>> \o Two(n % 100)
                      ELSE Two(n \div 100) \o Two(n % 100)
        Month == <<<<"J","a","n","u","a","r","y">>, <<"F","e","b","r","u","a","r","y">>, <<"M","a","r","c","h">>, <<"A","p","r","i","l">>, <<"M","a","y">>, <<"J","u","n","e">>,
                   <<"J","u","l","y">>, <<"A","u","g","u","s","t">>, <<"S","e","p","t","e","m","b","e","r">>, <<"O","c","t","o","b","e","r">>, <<"N","o","v","e","m","b","e","r">>,
                   <<"D","e","c","e","m","b","e","r">>>>
    IN IF format = "%Y-%m-%d"
       THEN Decimal(d.year) \o <<"-">> \o Two(d.month) \o <<"-">> \o Two(d.day)
       ELSE Month[d.month] \o <<" ">> \o Two(d.day) \o <<",", " ">> \o Decimal(d.year)

\* find_weeklies with FILENAME_RE.search in place of FILENAME_RE.match (of two
\* files of one date the one with the longer name comes first)
find_weeklies_search(names) ==
    LET FILENAME_RE_match(name) ==
            IF /\ Len(name) = 19
               /\ \A i \in {1, 2, 3, 4, 6, 7, 9, 10} : name[i] \in Digits
               /\ name[5] = "-" /\ name[8] = "-"
               /\ SubSeq(name, 11, 19) = <<"-","l","i","n","k","s",".","m","d">>
            THEN SubSeq(name, 1, 10)
            ELSE None
        DateText(name) == SubSeq(name, Len(name) - 18, Len(name) - 9)
        Key(name) == LET d == strptime(DateText(name))
                     IN (d.year * 10000 + d.month * 100 + d.day) * 100 + Len(name)
        Sorted(found) ==
            [n \in 1..Cardinality(found) |->
                LET name == CHOOSE p \in found :
                                Cardinality({q \in found : Key(q) > Key(p)}) = n - 1
                IN [d |-> strptime(DateText(name)), path |-> name]]
        Found(matched) ==
            IF \E p \in matched : ~strptime(DateText(p)).valid
            THEN [raised |-> TRUE, files |-> <<>>]
            ELSE [raised |-> FALSE, files |-> Sorted(matched)]
    IN Found({p \in names :
                /\ Len(p) >= 19
                /\ FILENAME_RE_match(SubSeq(p, Len(p) - 18, Len(p))) # None})


\* find_weeklies() in a directory that holds the files names: [raised, files],
\* files the (d, p) pairs by date, latest first; FILENAME_RE_match(name) is the
\* text of group 1 of FILENAME_RE.match(name), None without a match
find_weeklies(names) ==
    LET FILENAME_RE_match(name) ==
            IF /\ Len(name) = 19
               /\ \A i \in {1, 2, 3, 4, 6, 7, 9, 10} : name[i] \in Digits
               /\ name[5] = "-" /\ name[8] = "-"
               /\ SubSeq(name, 11, 19) = <<"-","l","i","n","k","s",".","m","d">>
            THEN SubSeq(name, 1, 10)
            ELSE None
        Key(name) == LET d == strptime(FILENAME_RE_match(name))
                     IN d.year * 10000 + d.month * 100 + d.day
        Sorted(found) ==
            [n \in 1..Cardinality(found) |->
                LET name == CHOOSE p \in found :
                                Cardinality({q \in found : Key(q) > Key(p)}) = n - 1
                IN [d |-> strptime(FILENAME_RE_match(name)), path |-> name]]
        Found(matched) ==
            IF \E p \in matched : ~strptime(FILENAME_RE_match(p)).valid
            THEN [raised |-> TRUE, files |-> <<>>]
            ELSE [raised |-> FALSE, files |-> Sorted(matched)]
    IN Found({p \in names : EndsWith(p, <<".","m","d">>) /\ FILENAME_RE_match(p) # None})

\* write_index(files, dry_run): [content, events] (in ARCHIVE_HEADER a character
\* outside ASCII is written by its code point)
write_index(files, dry_run) ==
    LET ARCHIVE_HEADER ==
            JoinWith(<<<<"#"," ","U+1F9ED"," ","O","p","e","n"," ","D","i","s","r","u","p","t","i","o","n"," ",EmDash," ","L","i","n","k"," ","A","r","c","h","i","v","e">>, <<>>,
                           <<"W","e","l","c","o","m","e"," ","t","o"," ","t","h","e"," ","*","*","O","p","e","n"," ","D","i","s","r","u","p","t","i","o","n"," ","L","i","n","k"," ","A","r","c","h","i","v","e","*","*",","," ","a"," ","w","e","e","k","l","y"," ","c","o","l","l","e","c","t","i","o","n"," ","o","f"," ","c","u","r","a","t","e","d"," ","A","I"," ","n","e","w","s",","," ","r","e","s","e","a","r","c","h"," ","p","a","p","e","r","s",","," ","p","r","o","d","u","c","t"," ","l","a","u","n","c","h","e","s",","," ","a","n","d"," ","X"," ","(","T","w","i","t","t","e","r",")"," ","t","h","r","e","a","d","s"," ","f","r","o","m"," ","o","u","r"," ","l","i","v","e"," ","O","f","f","i","c","e"," ","H","o","u","r","s"," ","s","e","s","s","i","o","n","s",".">>,
                           <<>>, <<">"," ","U+1F4FA"," ","W","a","t","c","h"," ","t","h","e"," ","w","e","e","k","l","y"," ","s","h","o","w"," ","o","n"," ","[","Y","o","u","T","u","b","e","]","(","h","t","t","p","s",":","/","/","y","o","u","t","u","b","e",".","c","o","m","/","@","O","p","e","n","D","i","s","r","u","p","t","i","o","n",")">>,
                           <<">"," ","U+1F310"," ","L","e","a","r","n"," ","m","o","r","e"," ","a","t"," ","[","o","p","e","n","d","i","s","r","u","p","t","i","o","n",".","c","o","m","]","(","h","t","t","p","s",":","/","/","o","p","e","n","d","i","s","r","u","p","t","i","o","n",".","c","o","m","/",")">>, <<>>, <<"-","-","-">>, <<>>,
                           <<"#","#"," ","U+1F5D3","U+FE0F"," ","A","r","c","h","i","v","e">>, <<>> >>, <<NewLine>>)
        ARCHIVE_FOOTER ==
            JoinWith(<< <<>>, <<"-","-","-">>, <<>>, <<"*","T","h","i","s"," ","a","r","c","h","i","v","e"," ","i","s"," ","o","p","e","n","-","s","o","u","r","c","e"," ","a","n","d"," ","u","p","d","a","t","e","d"," ","w","e","e","k","l","y",".","*">>, <<>> >>, <<NewLine>>)
        lines == <<ARCHIVE_HEADER, <<>> >>
                 \o [k \in 1..Len(files) |->
                        <<"-"," ","[">> \o strftime(files[k].d, "%B %d, %Y") \o <<"]","(",".","/">>
                        \o files[k].path \o <<")">>]
                 \o <<ARCHIVE_FOOTER>>
        Written(content) ==
            [content |-> content,
             events |-> IF dry_run
                        THEN <<PrintEvent("write_index", "--- index.md (preview) ---")>>
                        ELSE <<WriteEvent("write_index", <<"w","e","e","k","l","y","-","l","i","n","k","s","/","i","n","d","e","x",".","m","d">>, content)>>]
    IN Written(Strip(JoinWith(lines, <<NewLine>>)) \o <<NewLine>>)


\* s.replace(old, new) for a text of any length, old not empty
RECURSIVE ReplaceText(_, _, _)
ReplaceText(s, old, new) ==
    LET At(i) == IF i = 0 THEN s
                 ELSE SubSeq(s, 1, i - 1) \o new
                      \o ReplaceText(SubSeq(s, i + Len(old), Len(s)), old, new)
    IN At(Find(old, s))

\* DEFAULT_TEMPLATE
DEFAULT_TEMPLATE ==
    JoinWith(<<<<"#"," ","U+1F9E0"," ","O","p","e","n"," ","D","i","s","r","u","p","t","i","o","n"," ",EmDash," ","W","e","e","k","l","y"," ","A","I"," ","N","e","w","s"," ","L","i","n","k","s">>, <<"*","*","D","a","t","e",":","*","*"," ","{","D","I","S","P","L","A","Y","_","D","A","T","E","}"," "," ">>,
               <<"*","*","E","p","i","s","o","d","e",":","*","*"," ","W","e","e","k","l","y"," ","O","f","f","i","c","e"," ","H","o","u","r","s">>, <<>>,
               <<"W","e","l","c","o","m","e"," ","t","o"," ","t","h","i","s"," ","w","e","e","k","U+2019","s"," ","c","u","r","a","t","e","d"," ","l","i","s","t"," ","o","f"," ","t","h","e"," ","m","o","s","t"," ","i","m","p","o","r","t","a","n","t"," ","s","t","o","r","i","e","s",","," ","r","e","s","e","a","r","c","h"," ","p","a","p","e","r","s",","," ","t","h","r","e","a","d","s",","," ","a","n","d"," ","t","o","o","l","s"," ","i","n"," ","A","I",".">>,
               <<>>, <<">"," ","U+1F4FA"," ","W","a","t","c","h"," ","t","h","e"," ","f","u","l","l"," ","e","p","i","s","o","d","e"," ","o","n"," ","Y","o","u","T","u","b","e",":"," ","[","{","Y","O","U","T","U","B","E","_","T","E","X","T","}","]","(","{","Y","O","U","T","U","B","E","_","U","R","L","}",")">>, <<>>, <<"-","-","-">>,
               <<>>, <<"#","#"," ","U+1F4F0"," ","A","I"," ","I","n","d","u","s","t","r","y"," ","N","e","w","s">>, <<"-"," ","[","T","i","t","l","e"," ","o","f"," ","A","r","t","i","c","l","e"," ","o","r"," ","L","a","u","n","c","h","]","(","h","t","t","p","s",":","/","/","e","x","a","m","p","l","e",".","c","o","m",")">>, <<>>,
               <<"#","#"," ","U+1F9EA"," ","R","e","s","e","a","r","c","h"," ","&"," ","P","a","p","e","r","s">>, <<"-"," ","[","a","r","X","i","v",":"," ","P","a","p","e","r"," ","T","i","t","l","e","]","(","h","t","t","p","s",":","/","/","a","r","x","i","v",".","o","r","g","/","a","b","s","/","a","b","c","1","2","3",")">>, <<>>,
               <<"#","#"," ","U+1F9F0"," ","T","o","o","l","s",","," ","S","t","a","r","t","u","p","s"," ","&"," ","L","a","u","n","c","h","e","s">>, <<"-"," ","[","C","o","o","l"," ","n","e","w"," ","A","I"," ","t","o","o","l","]","(","h","t","t","p","s",":","/","/","e","x","a","m","p","l","e",".","c","o","m",")">>, <<>>,
               <<"#","#"," ","U+1F5E3","U+FE0F"," ","G","r","e","a","t"," ","T","h","r","e","a","d","s">>,
               <<"-"," ","[","A","u","t","h","o","r"," ",EmDash," ","T","h","r","e","a","d"," ","T","o","p","i","c","]","(","h","t","t","p","s",":","/","/","t","w","i","t","t","e","r",".","c","o","m","/","e","x","a","m","p","l","e","/","s","t","a","t","u","s","/","1","2","3","4","5",")">>, <<>>, <<"-","-","-">>, <<>>,
               <<"#","#"," ","U+1F5C3","U+FE0F"," ","A","r","c","h","i","v","e">>, <<"Y","o","u"," ","c","a","n"," ","f","i","n","d"," ","*","*","a","l","l"," ","p","r","e","v","i","o","u","s"," ","w","e","e","k","s","*","*"," ","o","f"," ","c","u","r","a","t","e","d"," ","A","I"," ","n","e","w","s"," ","h","e","r","e",":"," "," ">>,
               <<"U+1F449"," ","[","O","p","e","n"," ","D","i","s","r","u","p","t","i","o","n"," ","L","i","n","k"," ","A","r","c","h","i","v","e","]","(",".","/","i","n","d","e","x",".","m","d",")">>, <<>>, <<"-","-","-">>, <<>>,
               <<"*","C","u","r","a","t","e","d"," ","b","y"," ","T","o","d","d"," ","B","r","o","u","s"," ","f","o","r"," ","[","O","p","e","n"," ","D","i","s","r","u","p","t","i","o","n","]","(","h","t","t","p","s",":","/","/","o","p","e","n","d","i","s","r","u","p","t","i","o","n",".","c","o","m","/",")","*"," "," ">>,
               <<"*","F","o","l","l","o","w"," ","f","o","r"," ","w","e","e","k","l","y"," ","d","e","e","p"," ","d","i","v","e","s"," ","i","n","t","o"," ","t","h","e"," ","f","u","t","u","r","e"," ","o","f"," ","A","I",".","*">>, <<>> >>, <<NewLine>>)

\* parse_args() of weekly_links.py on the command line argv, from argv[i] on:
\* args, with status "error" where argparse exits with status 2 and "help"
\* where it prints the help
RECURSIVE weekly_links_parse_args(_, _, _)
weekly_links_parse_args(argv, i, args) ==
    LET options == {<<"-","-","h","e","l","p">>, <<"-","-","d","a","t","e">>, <<"-","-","v","i","d","e","o","-","u","r","l">>, <<"-","-","y","o","u","t","u","b","e","-","t","e","x","t">>,
                    <<"-","-","f","o","r","c","e">>, <<"-","-","d","r","y","-","r","u","n">>}
        Valued(option, eq, value, next) ==
            IF value = None THEN [args EXCEPT !.status = "error"]
            ELSE weekly_links_parse_args(argv, next,
                    IF option = <<"-","-","d","a","t","e">> THEN [args EXCEPT !.date = value]
                    ELSE IF option = <<"-","-","v","i","d","e","o","-","u","r","l">> THEN [args EXCEPT !.video_url = value]
                    ELSE [args EXCEPT !.youtube_text = value])
        Option(option, eq) ==
            IF option = <<"-","h">> \/ option = <<"-","-","h","e","l","p">> THEN [args EXCEPT !.status = "help"]
            ELSE IF option \in {<<"-","-","f","o","r","c","e">>, <<"-","-","d","r","y","-","r","u","n">>}
            THEN IF eq > 0 THEN [args EXCEPT !.status = "error"]
                 ELSE weekly_links_parse_args(argv, i + 1,
                        IF option = <<"-","-","f","o","r","c","e">> THEN [args EXCEPT !.force = TRUE]
                        ELSE [args EXCEPT !.dry_run = TRUE])
            ELSE IF eq > 0
                 THEN Valued(option, eq, SubSeq(argv[i], eq + 1, Len(argv[i])), i + 1)
            ELSE IF i + 1 <= Len(argv) /\ ~StartsWith(argv[i + 1], <<"-">>)
                 THEN Valued(option, eq, argv[i + 1], i + 2)
            ELSE Valued(option, eq, None, i + 1)
        Flag(flag, eq) ==
            LET hits == IF flag \in options \/ flag = <<"-","h">> THEN {flag}
                        ELSE IF StartsWith(flag, <<"-","-">>)
                        THEN {o \in options : StartsWith(o, flag)}
                        ELSE {}
            IN IF Cardinality(hits) # 1 THEN [args EXCEPT !.status = "error"]
               ELSE Option(CHOOSE o \in hits : TRUE, eq)
    IN IF i > Len(argv) THEN args
       ELSE IF ~StartsWith(argv[i], <<"-">>) THEN [args EXCEPT !.status = "error"]
       ELSE Flag(SubSeq(argv[i], 1, Find(<<"=">>, argv[i] \o <<"=">>) - 1),
                 Find(<<"=">>, argv[i]))

\* the files of the directory after the writes among events
DirAfter(dir, events) ==
    LET written == {SubSeq(events[k].path, 14, Len(events[k].path)) :
                        k \in {j \in 1..Len(events) :
                                    /\ events[j].ev = "write"
                                    /\ StartsWith(events[j].path, <<"w","e","e","k","l","y","-","l","i","n","k","s","/">>)}}
        Last(writes) == events[CHOOSE k \in writes : \A j \in writes : j <= k].text
        After(name, writes) == IF writes = {} THEN dir[name] ELSE Last(writes)
    IN [name \in DOMAIN dir \cup written |->
            After(name, {k \in 1..Len(events) :
                            /\ events[k].ev = "write"
                            /\ events[k].path = <<"w","e","e","k","l","y","-","l","i","n","k","s","/">> \o name})]

\* main() of weekly_links.py run as weekly_links.py argv on the day today in
\* the directory dir: [exit, events]
weekly_links_main(argv, today, dir) ==
    LET by == "weekly_links.main"
        Exit(code, events) == [exit |-> code, events |-> events]
        fill_template(tpl, display_date, video_url, youtube_text) ==
            ReplaceText(
                ReplaceText(
                    ReplaceText(
                        ReplaceText(
                            ReplaceText(
                                ReplaceText(tpl, <<"{","D","I","S","P","L","A","Y","_","D","A","T","E","}">>, display_date),
                                <<"{","Y","O","U","T","U","B","E","_","U","R","L","}">>, video_url),
                            <<"{","Y","O","U","T","U","B","E","_","T","E","X","T","}">>, youtube_text),
                        <<"[","M","o","n","t","h"," ","D","a","y",","," ","Y","e","a","r","]">>, display_date),
                    <<"(","h","t","t","p","s",":","/","/","y","o","u","t","u","b","e",".","c","o","m","/","y","o","u","r","-","v","i","d","e","o","-","l","i","n","k",")">>, <<"(">> \o video_url \o <<")">>),
                <<"[","Y","o","u","T","u","b","e"," ","L","i","n","k"," ","H","e","r","e","]">>, youtube_text)
        ensure_dirs == <<[ev |-> "mkdir", by |-> "ensure_dirs", path |-> <<"w","e","e","k","l","y","-","l","i","n","k","s">>]>>
        Indexed(args, events, found) ==
            IF found.raised THEN Exit(1, events)
            ELSE Exit(0, events \o write_index(found.files, args.dry_run).events
                         \o (IF args.dry_run THEN <<>> ELSE <<PrintEvent(by, "Updated:")>>))
        Listed(args, events) ==
            Indexed(args, events, find_weeklies(DOMAIN DirAfter(dir, events)))
        Created(args, d, out_file) ==
            IF out_file \in DOMAIN dir /\ ~args.force
            THEN <<PrintEvent(by, "already exists. Use --force to overwrite.")>>
            ELSE IF args.dry_run THEN <<PrintEvent(by, "(preview)")>>
            ELSE <<WriteEvent(by, <<"w","e","e","k","l","y","-","l","i","n","k","s","/">> \o out_file,
                              fill_template(IF <<"t","e","m","p","l","a","t","e",".","m","d">> \in DOMAIN dir
                                            THEN dir[<<"t","e","m","p","l","a","t","e",".","m","d">>] ELSE DEFAULT_TEMPLATE,
                                            strftime(d, "%B %d, %Y"),
                                            args.video_url, args.youtube_text)),
                   PrintEvent(by, "Created:")>>
        Dated(args, d) ==
            IF ~d.valid THEN Exit(1, ensure_dirs)
            ELSE Listed(args, ensure_dirs
                              \o Created(args, d, strftime(d, "%Y-%m-%d") \o <<"-","l","i","n","k","s",".","m","d">>))
        Parsed(args) ==
            IF args.status = "error" THEN Exit(2, <<>>)
            ELSE IF args.status = "help" THEN Exit(0, <<>>)
            ELSE Dated(args, strptime(args.date))
    IN Parsed(weekly_links_parse_args(argv, 1,
                [status |-> "ok", date |-> today,
                 video_url |-> <<"h","t","t","p","s",":","/","/","y","o","u","t","u","b","e",".","c","o","m","/","y","o","u","r","-","v","i","d","e","o","-","l","i","n","k">>,
                 youtube_text |-> <<"Y","o","u","T","u","b","e"," ","L","i","n","k"," ","H","e","r","e">>,
                 force |-> FALSE, dry_run |-> FALSE]))

\* the write of the HTML version of a markdown file: html_output, or
\* markdown_file.with_suffix(".html") when it is None. What the markdown
\* library makes of the text is not modelled: the HTML document stands as
\* the doctype line over the markdown source.
HtmlWrite(by, markdown_file, html_output, content) ==
    LET dots == {i \in 1..Len(markdown_file) : markdown_file[i] = "."}
        Stem == IF dots = {} THEN markdown_file
                ELSE SubSeq(markdown_file, 1, (CHOOSE i \in dots : \A j \in dots : j <= i) - 1)
    IN WriteEvent(by, IF html_output # None THEN html_output ELSE Stem \o <<".","h","t","m","l">>,
                  <<"<","!","D","O","C","T","Y","P","E"," ","h","t","m","l",">">> \o <<NewLine>> \o content)

\* extract_urls_from_section(content): the URLs of the lines of the links
\* section, from the line after its header to the archive heading
extract_urls_from_section(content) ==
    LET Section(lines, headers) ==
            IF headers = {} THEN <<>>
            ELSE LET h == Min(headers)
                     ends == {k \in (h + 1)..Len(lines) : StartsWith(lines[k], ArchiveHeading)}
                 IN SubSeq(lines, h + 1, IF ends = {} THEN Len(lines) ELSE Min(ends) - 1)
        Headers(lines) ==
            Section(lines, {k \in 1..Len(lines) : StartsWith(lines[k], LinksHeading)})
    IN extract_urls_from_text(JoinWith(Headers(SplitLines(content)), <<NewLine>>))

\* process_file_with_html(input_file, output_file, html_output, dry_run),
\* content being the text of input_file: [result, events]
process_file_with_html(input_file, content, output_file, html_output, dry_run) ==
    LET by == "process_file_with_html"
        Replaces(line) == StartsWith(line, LinksHeading) \/ StartsWith(line, <<"#","#"," ","A","I"," ","I","n","d","u","s","t","r","y"," ","N","e","w","s">>)
        Warned(lines) ==
            IF \E k \in 1..Len(lines) : Replaces(lines[k]) THEN <<>>
            ELSE <<PrintEvent(by, "Warning: No 'Links from Office Hours' section found to replace")>>
        Written(result) ==
            [result |-> result,
             events |-> <<PrintEvent(by, "Found URLs to format")>>
                        \o Warned(SplitLines(content))
                        \o (IF dry_run THEN <<PrintEvent(by, "FORMATTED CONTENT PREVIEW")>>
                            ELSE <<WriteEvent(by, IF output_file # None THEN output_file
                                                  ELSE input_file, result),
                                   HtmlWrite(by, input_file, html_output, result)>>)]
        Replaced(urls) ==
            Written(JoinWith(ReplaceEitherSection(SplitLines(content), 1, FALSE,
                                 LinksHeading \o <<NewLine>> \o OrderNote
                                 \o <<NewLine, NewLine>> \o format_urls_to_markdown(urls).text),
                             <<NewLine>>))
        Extracted(urls) ==
            IF urls = <<>>
            THEN [result |-> content,
                  events |-> <<PrintEvent(by, "No URLs found in the Links section.")>>]
            ELSE Replaced(urls)
    IN Extracted(extract_urls_from_section(content))

\* process_with_smart_formatter without the early return of the dry run
process_with_smart_formatter_always_writes(input_file, content, urls, dry_run, nets, html_ok) ==
    LET by == "process_with_smart_formatter"
        Written(formatted) ==
            [ok |-> TRUE,
             events |-> formatted.events
                        \o <<WriteEvent(by, input_file,
                                JoinWith(ReplaceSection(SplitLines(content), 1, FALSE,
                                             LinksHeading \o <<NewLine>> \o OrderNote
                                             \o <<NewLine, NewLine>> \o formatted.text),
                                         <<NewLine>>))>>]
        WithHtml(written) ==
            IF html_ok
            THEN [ok |-> TRUE,
                  events |-> written.events
                             \o <<HtmlWrite("markdown_to_html.py", input_file, None,
                                            written.events[Len(written.events)].text)>>]
            ELSE written
    IN WithHtml(Written(format_urls_to_markdown_smart(urls, nets)))

\* process_with_smart_formatter(input_file, urls, dry_run), content being the
\* text of input_file and html_ok telling whether markdown_to_html.py ends
\* with status 0: [ok, events]
process_with_smart_formatter(input_file, content, urls, dry_run, nets, html_ok) ==
    LET by == "process_with_smart_formatter"
        shown == IF Len(urls) > 5 THEN 5 ELSE Len(urls)
        Written(formatted) ==
            [ok |-> TRUE,
             events |-> formatted.events
                        \o <<WriteEvent(by, input_file,
                                JoinWith(ReplaceSection(SplitLines(content), 1, FALSE,
                                             LinksHeading \o <<NewLine>> \o OrderNote
                                             \o <<NewLine, NewLine>> \o formatted.text),
                                         <<NewLine>>))>>]
        WithHtml(written) ==
            IF html_ok
            THEN [ok |-> TRUE,
                  events |-> written.events
                             \o <<HtmlWrite("markdown_to_html.py", input_file, None,
                                            written.events[Len(written.events)].text)>>]
            ELSE written
    IN IF dry_run
       THEN [ok |-> TRUE,
             events |-> EventsOf([i \in 1..shown |->
                            generate_smart_title_for_url(urls[i], TRUE, nets[urls[i]])], 1)]
       ELSE WithHtml(Written(format_urls_to_markdown_smart(urls, nets)))

\* process_single_file_hybrid(input_file, dry_run, smart_only, fast_only),
\* content being the text of input_file: [ok, events]. The fast formatter is
\* format_urls_with_html.py --input-file input_file --generate-html, run as a
\* subprocess; the file that process_with_hybrid_approach writes and the HTML
\* version that markdown_to_html.py makes of it are logged here.
process_single_file_hybrid(input_file, content, dry_run, smart_only, fast_only, nets, html_ok) ==
    LET by == "process_single_file_hybrid"
        Hybrid(result) ==
            [ok |-> TRUE,
             events |-> result.events
                        \o (IF dry_run THEN <<>>
                            ELSE <<WriteEvent("process_with_hybrid_approach", input_file,
                                              result.content)>>
                                 \o (IF html_ok
                                     THEN <<HtmlWrite("markdown_to_html.py", input_file, None,
                                                      result.content)>>
                                     ELSE <<>>))]
        Extracted(urls, fast, smart, hybrid) ==
            IF urls = <<>>
            THEN [ok |-> FALSE,
                  events |-> <<PrintEvent(by, "No URLs found in the Links section.")>>]
            ELSE IF fast_only THEN [ok |-> TRUE, events |-> fast.events]
            ELSE IF smart_only THEN smart
            ELSE Hybrid(hybrid)
    IN Extracted(extract_urls_from_section(content),
                 process_file_with_html(input_file, content, None, None, dry_run),
                 process_with_smart_formatter(input_file, content,
                                              extract_urls_from_section(content), dry_run,
                                              nets, html_ok),
                 process_with_hybrid_approach(content, extract_urls_from_section(content),
                                              dry_run, nets))

\* update_archive_index(dry_run), run on the day today in the directory dir:
\* [ok, events], the events being those of the run of weekly_links.py
update_archive_index(dry_run, today, dir) ==
    LET Run(result) ==
            IF result.exit = 0 THEN [ok |-> TRUE, events |-> result.events]
            ELSE [ok |-> FALSE,
                  events |-> result.events
                             \o <<PrintEvent("update_archive_index",
                                             "Could not update archive index")>>]
    IN Run(weekly_links_main(<<<<"-","-","u","p","d","a","t","e","-","i","n","d","e","x">>>>
                               \o (IF dry_run THEN <<<<"-","-","d","r","y","-","r","u","n">>>> ELSE <<>>),
                             today, dir))

\* main() of hybrid_workflow.py with the arguments args, in the directory dir
\* and on the day today: [exit, events]. With --latest, args.input is the file
\* modified last; with --all, glob yields the files in the order of order.
hybrid_workflow_main(args, today, dir, nets, html_ok, order) ==
    LET by == "hybrid_workflow.main"
        Rank(name) == CHOOSE k \in 1..Len(order) : order[k] = name
        InOrder(names) ==
            [n \in 1..Cardinality(names) |->
                CHOOSE p \in names : Cardinality({q \in names : Rank(q) < Rank(p)}) = n - 1]
        \* the files of the run: those of --all, the one of --input or --latest
        Files ==
            IF args.mode = "all"
            THEN InOrder({p \in DOMAIN dir : EndsWith(p, <<".","m","d">>) /\ p # <<"i","n","d","e","x",".","m","d">>})
            ELSE <<args.input>>
        Each(rounds) ==
            [ok |-> \A n \in 1..Len(rounds) : rounds[n].ok, events |-> EventsOf(rounds, 1)]
        Updated(files, worked) ==
            IF files = <<>>
            THEN [exit |-> 1, events |-> <<PrintEvent(by, "No markdown files to process")>>]
            ELSE IF worked.ok
            THEN [exit |-> 0,
                  events |-> worked.events
                             \o update_archive_index(args.dry_run, today,
                                                     DirAfter(dir, worked.events)).events]
            ELSE [exit |-> 1, events |-> worked.events]
    IN IF args.mode \in {"all", "latest", "input"}
       THEN Updated(Files,
                    Each([n \in 1..Len(Files) |->
                            process_single_file_hybrid(<<"w","e","e","k","l","y","-","l","i","n","k","s","/">> \o Files[n],
                                                       dir[Files[n]], args.dry_run,
                                                       args.smart_only, args.fast_only,
                                                       nets, html_ok)]))
       ELSE [exit |-> 1,
             events |-> <<PrintEvent(by, "Please specify --input, --all, or --latest")>>]

\* the day of the run, and the command lines of weekly_links.py
Today == <<"2","0","2","5","-","1","0","-","2","4">>

WeeklyArgvs ==
    {<<>>, <<<<"-","-","d","r","y","-","r","u","n">>>>, <<<<"-","-","f","o","r","c","e">>>>, <<<<"-","-","d","a","t","e">>, <<"2","0","2","5","-","1","0","-","1","7">>>>,
     <<<<"-","-","d","a","t","e","=","2","0","2","5","-","1","0","-","1","7">>, <<"-","-","f","o","r","c","e">>, <<"-","-","v","i","d","e","o","-","u","r","l">>, <<"h","t","t","p","s",":","/","/","y","o","u","t","u",".","b","e","/","a","b","c">>>>,
     <<<<"-","-","d","a","t","e">>, <<"2","0","2","5","-","1","0","-","1","7">>, <<"-","-","f","o","r","c","e">>, <<"-","-","d","r","y">>>>,
     <<<<"-","-","d","a","t","e">>, <<"1","7"," ","O","c","t","o","b","e","r">>>>, <<<<"-","-","d">>, <<"2","0","2","5","-","1","0","-","1","7">>>>, <<<<"e","x","t","r","a">>>>}

\* the files that may lie in weekly-links/ beside the weekly file, and their text
InputName == <<"2","0","2","5","-","1","0","-","1","7","-","l","i","n","k","s",".","m","d">>

Listings ==
    {{}, {<<"i","n","d","e","x",".","m","d">>}, {<<"i","n","d","e","x",".","m","d">>, <<"t","e","m","p","l","a","t","e",".","m","d">>},
     {<<"i","n","d","e","x",".","m","d">>, <<"2","0","2","5","-","1","0","-","2","4","-","l","i","n","k","s",".","m","d">>, <<"2","0","2","4","-","1","2","-","3","1","-","l","i","n","k","s",".","m","d">>},
     {<<"i","n","d","e","x",".","m","d">>, <<"t","e","m","p","l","a","t","e",".","m","d">>, <<"2","0","2","5","-","1","0","-","2","4","-","l","i","n","k","s",".","m","d">>, <<"2","0","2","4","-","1","2","-","3","1","-","l","i","n","k","s",".","m","d">>,
      <<"n","o","t","e","s","-","2","0","2","5","-","1","0","-","1","7","-","l","i","n","k","s",".","m","d">>, <<"2","0","2","5","-","1","0","-","1","7","-","l","i","n","k","s",".","h","t","m","l">>},
     {<<"t","e","m","p","l","a","t","e",".","m","d">>, <<"2","0","2","4","-","1","2","-","3","1","-","l","i","n","k","s",".","m","d">>, <<"n","o","t","e","s","-","2","0","2","5","-","1","0","-","1","7","-","l","i","n","k","s",".","m","d">>},
     {<<"i","n","d","e","x",".","m","d">>, <<"2","0","2","5","-","1","0","-","2","4","-","l","i","n","k","s",".","m","d">>, <<"2","0","2","5","-","1","3","-","4","0","-","l","i","n","k","s",".","m","d">>},
     {<<"2","0","2","5","-","1","0","-","1","7","-","l","i","n","k","s",".","h","t","m","l">>, <<"2","0","2","5","-","1","0","-","2","4","-","l","i","n","k","s",".","m","d">>}}

\* an order in which glob may yield the files
GlobOrder ==
    <<<<"2","0","2","4","-","1","2","-","3","1","-","l","i","n","k","s",".","m","d">>, InputName, <<"2","0","2","5","-","1","0","-","2","4","-","l","i","n","k","s",".","m","d">>, <<"2","0","2","5","-","1","3","-","4","0","-","l","i","n","k","s",".","m","d">>,
      <<"i","n","d","e","x",".","m","d">>, <<"n","o","t","e","s","-","2","0","2","5","-","1","0","-","1","7","-","l","i","n","k","s",".","m","d">>, <<"t","e","m","p","l","a","t","e",".","m","d">>, <<"2","0","2","5","-","1","0","-","1","7","-","l","i","n","k","s",".","h","t","m","l">>>>

\* the arguments of hybrid_workflow.py
HybridArgs ==
    {[mode |-> m.mode, input |-> m.input, dry_run |-> d, smart_only |-> s.smart,
      fast_only |-> s.fast] :
        m \in {[mode |-> "input", input |-> InputName],
               [mode |-> "input", input |-> <<"i","n","d","e","x",".","m","d">>],
               [mode |-> "latest", input |-> InputName],
               [mode |-> "all", input |-> None], [mode |-> "none", input |-> None]},
        d \in BOOLEAN,
        s \in {[smart |-> FALSE, fast |-> FALSE], [smart |-> TRUE, fast |-> FALSE],
               [smart |-> FALSE, fast |-> TRUE]}}

\* every URL behind a page that answers, or behind a network that is down
FileNets == {[url \in BatchCorpus |-> N_up], [url \in BatchCorpus |-> N_down]}

Dir(weekly, names) ==
    [name \in names \cup {InputName} |->
        IF name = InputName THEN weekly
        ELSE IF name = <<"t","e","m","p","l","a","t","e",".","m","d">>
        THEN JoinWith(<<<<"#"," ","W","e","e","k","l","y"," ","l","i","n","k","s",","," ","{","D","I","S","P","L","A","Y","_","D","A","T","E","}">>, <<"[","{","Y","O","U","T","U","B","E","_","T","E","X","T","}","]","(","{","Y","O","U","T","U","B","E","_","U","R","L","}",")">>,
                        <<"[","M","o","n","t","h"," ","D","a","y",","," ","Y","e","a","r","]",":"," ","[","Y","o","u","T","u","b","e"," ","L","i","n","k"," ","H","e","r","e","]","(","h","t","t","p","s",":","/","/","y","o","u","t","u","b","e",".","c","o","m","/","y","o","u","r","-","v","i","d","e","o","-","l","i","n","k",")">>>>,
                      <<NewLine>>)
        ELSE IF name = <<"i","n","d","e","x",".","m","d">> THEN <<"#"," ","L","i","n","k"," ","A","r","c","h","i","v","e">>
        ELSE <<"#"," ","O","p","e","n"," ","D","i","s","r","u","p","t","i","o","n"," ","W","e","e","k","l","y">>]

---------------------------------------------------------------------------
(* Specification SpecFiles: one run of a script over the weekly file doc   *)
(* and the directory weekly_dir.                                           *)

InitFiles ==
    /\ pc = "idle"
    /\ call = NoCall
    /\ ret = NoRet
    /\ log = <<>>
    /\ unique_urls = <<>>
    /\ markdown_links = <<>>
    /\ content_len = 0
    /\ \/ doc \in Docs /\ weekly_dir = Dir(doc, {<<"i","n","d","e","x",".","m","d">>})
       \/ doc = RawDoc /\ weekly_dir \in {Dir(doc, names) : names \in Listings}

ProcessFile(output_file, dry_run, result) ==
    /\ pc = "idle"
    /\ pc' = "done"
    /\ call' = [fn |-> "process_file", content |-> doc, weekly_dir |-> weekly_dir,
                output_file |-> output_file, dry_run |-> dry_run]
    /\ ret' = [result |-> result.result]
    /\ log' = log \o result.events
    /\ weekly_dir' = DirAfter(weekly_dir, result.events)
    /\ doc' = DirAfter(weekly_dir, result.events)[InputName]
    /\ UNCHANGED <<unique_urls, markdown_links, content_len>>

WeeklyLinksMain(argv, result) ==
    /\ pc = "idle"
    /\ pc' = "done"
    /\ call' = [fn |-> "weekly_links.main", content |-> doc, weekly_dir |-> weekly_dir,
                argv |-> argv]
    /\ ret' = [exit |-> result.exit]
    /\ log' = log \o result.events
    /\ weekly_dir' = DirAfter(weekly_dir, result.events)
    /\ doc' = DirAfter(weekly_dir, result.events)[InputName]
    /\ UNCHANGED <<unique_urls, markdown_links, content_len>>

FormatUrlsWithHtmlMain(generate_html, dry_run, result) ==
    /\ pc = "idle"
    /\ pc' = "done"
    /\ call' = [fn |-> "format_urls_with_html.main", content |-> doc,
                weekly_dir |-> weekly_dir, generate_html |-> generate_html,
                dry_run |-> dry_run]
    /\ ret' = [result |-> result.result]
    /\ log' = log \o result.events
    /\ weekly_dir' = DirAfter(weekly_dir, result.events)
    /\ doc' = DirAfter(weekly_dir, result.events)[InputName]
    /\ UNCHANGED <<unique_urls, markdown_links, content_len>>

HybridWorkflowMain(args, nets, html_ok, order, result) ==
    /\ pc = "idle"
    /\ args.input \in DOMAIN weekly_dir \cup {None}
    /\ pc' = "done"
    /\ call' = [fn |-> "hybrid_workflow.main", content |-> doc, weekly_dir |-> weekly_dir,
                args |-> args, nets |-> nets, html_ok |-> html_ok, order |-> order,
                dry_run |-> args.dry_run]
    /\ ret' = [exit |-> result.exit]
    /\ log' = log \o result.events
    /\ weekly_dir' = DirAfter(weekly_dir, result.events)
    /\ doc' = DirAfter(weekly_dir, result.events)[InputName]
    /\ UNCHANGED <<unique_urls, markdown_links, content_len>>

NextFiles ==
    \/ \E output_file \in {None, OutputFile}, dry_run \in BOOLEAN :
            ProcessFile(output_file, dry_run, process_file(doc, output_file, dry_run))
    \/ \E argv \in WeeklyArgvs :
            WeeklyLinksMain(argv, weekly_links_main(argv, Today, weekly_dir))
    \/ \E generate_html, dry_run \in BOOLEAN :
            FormatUrlsWithHtmlMain(generate_html, dry_run,
                process_file_with_html(InputFile, doc, None, None, dry_run))
    \/ \E args \in HybridArgs, nets \in FileNets, html_ok \in BOOLEAN,
          order \in {GlobOrder, [k \in 1..Len(GlobOrder) |-> GlobOrder[Len(GlobOrder) + 1 - k]]} :
            HybridWorkflowMain(args, nets, html_ok, order,
                hybrid_workflow_main(args, Today, weekly_dir, nets, html_ok, order))

SpecFiles == InitFiles /\ [][NextFiles]_vars

\* the messages that report that the links section is missing
MissingSectionReports ==
    {"No URLs found in the Links section.",
     "Warning: No 'Links from Office Hours' section found to replace"}

\* C15: a formatting run over a document that holds URLs and no line that
\* opens the links section ("## Links from Office Hours" or "## AI Industry
\* News") reports the missing section and writes no file, markdown or HTML.
C15_MissingSectionNoMutation ==
    (/\ pc = "done"
     /\ call.fn \in {"process_file", "process_file_with_html", "process_single_file_hybrid"}
     /\ extract_urls_from_text(call.content) # <<>>
     /\ \A k \in 1..Len(SplitLines(call.content)) :
            /\ ~StartsWith(SplitLines(call.content)[k], LinksHeading)
            /\ ~StartsWith(SplitLines(call.content)[k], <<"#","#"," ","A","I"," ","I","n","d","u","s","t","r","y"," ","N","e","w","s">>))
        => /\ \E k \in 1..Len(log) : log[k].ev = "print" /\ log[k].msg \in MissingSectionReports
           /\ \A k \in 1..Len(log) : log[k].ev # "write"
           /\ doc = call.content


\* the lines of an index that are entries
IndexEntries(text) ==
    LET IsEntry(line) == StartsWith(line, <<"-"," ","[">>)
    IN SelectSeq(SplitLines(text), IsEntry)

\* C16: the index that weekly_links.py writes holds exactly one entry for
\* every file of weekly-links/ named YYYY-MM-DD-links.md and none for any
\* other file (index.md, template.md), the entries being in descending order
\* of date.
C16_IndexListsWeeklies ==
    (/\ pc = "done"
     /\ call.fn = "weekly_links.main"
     /\ \E k \in 1..Len(log) : log[k].ev = "write" /\ log[k].by = "write_index")
        => LET Weekly(name) ==
                    /\ Len(name) = Len(<<"Y","Y","Y","Y","-","M","M","-","D","D","-","l","i","n","k","s",".","m","d">>)
                    /\ \A i \in 1..10 : IF i \in {5, 8} THEN name[i] = "-"
                                        ELSE name[i] \in Digits
                    /\ EndsWith(name, <<"-","l","i","n","k","s",".","m","d">>)
               DateOf(entry) == SubSeq(entry, Len(entry) - 19, Len(entry) - 10)
               Rank(c) == CHOOSE n \in 0..9 :
                            <<"0", "1", "2", "3", "4", "5", "6", "7", "8", "9">>[n + 1] = c
               Holds(entries) ==
                    /\ \A name \in DOMAIN weekly_dir :
                            Cardinality({k \in 1..Len(entries) :
                                            EndsWith(entries[k], <<"]","(",".","/">> \o name \o <<")">>)})
                                = IF Weekly(name) THEN 1 ELSE 0
                    /\ Len(entries) = Cardinality({name \in DOMAIN weekly_dir : Weekly(name)})
                    /\ \A i, j \in 1..Len(entries) :
                            i < j =>
                                \E p \in 1..10 :
                                    /\ SubSeq(DateOf(entries[i]), 1, p - 1)
                                            = SubSeq(DateOf(entries[j]), 1, p - 1)
                                    /\ DateOf(entries[i])[p] \in Digits
                                    /\ DateOf(entries[j])[p] \in Digits
                                    /\ Rank(DateOf(entries[i])[p]) > Rank(DateOf(entries[j])[p])
           IN Holds(IndexEntries(weekly_dir[<<"i","n","d","e","x",".","m","d">>]))

\* an index written for a directory that holds three weekly files beside
\* index.md, template.md and a file whose name only ends like a weekly file's
C16_Witness ==
    /\ pc = "done"
    /\ call.fn = "weekly_links.main"
    /\ \E k \in 1..Len(log) : log[k].ev = "write" /\ log[k].by = "write_index"
    /\ {<<"i","n","d","e","x",".","m","d">>, <<"t","e","m","p","l","a","t","e",".","m","d">>, <<"n","o","t","e","s","-","2","0","2","5","-","1","0","-","1","7","-","l","i","n","k","s",".","m","d">>, <<"2","0","2","5","-","1","0","-","2","4","-","l","i","n","k","s",".","m","d">>,
        <<"2","0","2","4","-","1","2","-","3","1","-","l","i","n","k","s",".","m","d">>, InputName} \subseteq DOMAIN weekly_dir
    /\ IndexEntries(weekly_dir[<<"i","n","d","e","x",".","m","d">>])
            = <<<<"-"," ","[","O","c","t","o","b","e","r"," ","2","4",","," ","2","0","2","5","]","(",".","/","2","0","2","5","-","1","0","-","2","4","-","l","i","n","k","s",".","m","d",")">>,
                <<"-"," ","[","O","c","t","o","b","e","r"," ","1","7",","," ","2","0","2","5","]","(",".","/","2","0","2","5","-","1","0","-","1","7","-","l","i","n","k","s",".","m","d",")">>,
                <<"-"," ","[","D","e","c","e","m","b","e","r"," ","3","1",","," ","2","0","2","4","]","(",".","/","2","0","2","4","-","1","2","-","3","1","-","l","i","n","k","s",".","m","d",")">>>>


\* the run the state records was a dry run
IsDryRun ==
    IF call.fn = "weekly_links.main"
    THEN \E i \in 1..Len(call.argv) : call.argv[i] \in {<<"-","-","d","r","y","-","r","u","n">>, <<"-","-","d","r","y">>}
    ELSE call.dry_run

C18_HtmlOnlyOnRequest ==
    (/\ pc = "done"
     /\ call.fn = "format_urls_with_html.main"
     /\ ~call.dry_run
     /\ ~call.generate_html)
        => \A k \in 1..Len(log) :
                log[k].ev = "write" => ~EndsWith(log[k].path, <<".","h","t","m","l">>)

\* C19: after hybrid_workflow.py has processed its file or files (no dry
\* run), update_archive_index regenerates weekly-links/index.md: the command
\* line it runs weekly_links.py with is accepted and the index is written.
C19_IndexRegenerated ==
    (/\ pc = "done"
     /\ call.fn = "hybrid_workflow.main"
     /\ ~call.args.dry_run
     /\ \E k \in 1..Len(log) :
            log[k].ev = "write" /\ log[k].path = <<"w","e","e","k","l","y","-","l","i","n","k","s","/">> \o InputName)
        => /\ \E k \in 1..Len(log) : log[k].ev = "write" /\ log[k].by = "write_index"
           /\ \A k \in 1..Len(log) :
                ~(log[k].ev = "print" /\ log[k].by = "update_archive_index")


\* C27: the section replacement of process_file, process_file_with_html,
\* process_with_smart_formatter and process_with_hybrid_approach changes the
\* links section alone: in the text written for the weekly file, every line
\* that stood before the header of the section and every line from the
\* archive heading on is kept, unchanged and in order, whether the archive
\* heading is "## Archive" or the one of the templates, and also without an
\* archive heading after the section.
C27_OnlyLinksSectionChanges ==
    (pc = "done" /\ call.fn \in {"process_file", "format_urls_with_html.main",
                                 "hybrid_workflow.main"}) =>
        LET IsHeader(line) ==
                StartsWith(line, LinksHeading) \/ StartsWith(line, <<"#","#"," ","A","I"," ","I","n","d","u","s","t","r","y"," ","N","e","w","s">>)
            IsArchive(line) == StartsWith(line, <<"#","#"," ">>) /\ EndsWith(line, <<"A","r","c","h","i","v","e">>)
            Kept(old, new, headers, archives) ==
                IF headers = {} THEN new = old
                ELSE /\ Len(new) >= Min(headers) - 1
                     /\ SubSeq(new, 1, Min(headers) - 1) = SubSeq(old, 1, Min(headers) - 1)
                     /\ archives # {} =>
                            /\ Len(new) >= Len(old) - Min(archives) + 1
                            /\ SubSeq(new, Len(new) - (Len(old) - Min(archives)), Len(new))
                                 = SubSeq(old, Min(archives), Len(old))
            After(old, new, headers) ==
                Kept(old, new, headers,
                     {k \in 1..Len(old) : k > Min(headers \cup {Len(old)}) /\ IsArchive(old[k])})
            Lines(old, new) ==
                After(old, new, {k \in 1..Len(old) : IsHeader(old[k])})
        IN \A k \in 1..Len(log) :
                (/\ log[k].ev = "write"
                 /\ log[k].path \in {InputFile, OutputFile})
                    => Lines(SplitLines(call.content), SplitLines(log[k].text))

---------------------------------------------------------------------------
(* Specification SpecRerun: weekly_links.py run again and again in the     *)
(* directory weekly_dir, each run on what the runs before it left.         *)

MaxRuns == 3

\* the command lines of the runs: the date of the weekly file with and
\* without --force and --dry-run, and no argument (the day of the run)
RerunArgvs ==
    {<<<<"-","-","d","a","t","e">>, <<"2","0","2","5","-","1","0","-","1","7">>>>, <<<<"-","-","d","a","t","e">>, <<"2","0","2","5","-","1","0","-","1","7">>, <<"-","-","f","o","r","c","e">>>>,
     <<<<"-","-","d","a","t","e">>, <<"2","0","2","5","-","1","0","-","1","7">>, <<"-","-","d","r","y","-","r","u","n">>>>, <<>>}

\* one more run; every run starts with ensure_dirs, which counts the runs
WeeklyLinksRerun(argv, result) ==
    /\ Cardinality({k \in 1..Len(log) : log[k].ev = "mkdir"}) < MaxRuns
    /\ pc' = "done"
    /\ call' = [fn |-> "weekly_links.main", content |-> doc, weekly_dir |-> weekly_dir,
                argv |-> argv]
    /\ ret' = [exit |-> result.exit]
    /\ log' = log \o result.events
    /\ weekly_dir' = DirAfter(weekly_dir, result.events)
    /\ doc' = DirAfter(weekly_dir, result.events)[InputName]
    /\ UNCHANGED <<unique_urls, markdown_links, content_len>>

NextRerun ==
    \/ \E argv \in RerunArgvs :
            WeeklyLinksRerun(argv, weekly_links_main(argv, Today, weekly_dir))

SpecRerun == InitFiles /\ [][NextRerun]_vars

\* a run of weekly_links.py without --force keeps every file that was there
\* but index.md as it was
KeptWithoutForce ==
    [][(\A k \in 1..Len(call'.argv) : call'.argv[k] # <<"-","-","f","o","r","c","e">>)
            => \A name \in DOMAIN weekly_dir \ {<<"i","n","d","e","x",".","m","d">>} :
                    /\ name \in DOMAIN weekly_dir'
                    /\ weekly_dir'[name] = weekly_dir[name]]_vars

\* C22: weekly_links.main never overwrites an existing weekly file unless
\* --force is given: however many times it runs for the same date without
\* --force, the file keeps its content, and every run that is not a dry run
\* writes index.md again.
C22_KeptAndIndexed ==
    [][(\A k \in 1..Len(call'.argv) : call'.argv[k] # <<"-","-","f","o","r","c","e">>)
            => /\ \A name \in DOMAIN weekly_dir \ {<<"i","n","d","e","x",".","m","d">>} :
                    /\ name \in DOMAIN weekly_dir'
                    /\ weekly_dir'[name] = weekly_dir[name]
               /\ (\A k \in 1..Len(call'.argv) : call'.argv[k] # <<"-","-","d","r","y","-","r","u","n">>)
                    => \E k \in (Len(log) + 1)..Len(log') :
                            /\ log'[k].ev = "write"
                            /\ log'[k].path = <<"w","e","e","k","l","y","-","l","i","n","k","s","/","i","n","d","e","x",".","m","d">>]_vars


---------------------------------------------------------------------------
(* RAW_LINKS: open_links_in_chrome.py and raw_links_to_weekly.py           *)

CATEGORIES ==
    {<<"H","E","A","D","L","I","N","E","S">>, <<"G","R","A","P","H","I","C","S">>, <<"L","L","M","S">>, <<"A","G","E","N","T","S">>, <<"C","O","D","I","N","G">>, <<"O","T","H","E","R">>, <<"L","A","B","O","R">>}

\* the loop of parse_raw_links_with_categories from line i on: the items it
\* appends, a search item with its term
RECURSIVE ParseRawLines(_, _, _, _, _)
ParseRawLines(lines, i, category_filter, current_category, seen_urls) ==
    LET Rest(category, seen) == ParseRawLines(lines, i + 1, category_filter, category, seen)
        Upper(s) == [k \in 1..Len(s) |-> UpperChar(s[k])]
        RstripColons(s) ==
            IF \A k \in 1..Len(s) : s[k] = ":" THEN <<>>
            ELSE SubSeq(s, 1, CHOOSE k \in 1..Len(s) :
                                s[k] # ":" /\ \A j \in (k + 1)..Len(s) : s[j] = ":")
        Quote(c) ==
            CASE c = " " -> <<"%","2","0">> [] c = "\"" -> <<"%","2","2">> [] c = "#" -> <<"%","2","3">>
              [] c = "%" -> <<"%","2","5">> [] c = "&" -> <<"%","2","6">> [] c = "+" -> <<"%","2","B">>
              [] c = "," -> <<"%","2","C">> [] c = ":" -> <<"%","3","A">> [] c = "=" -> <<"%","3","D">>
              [] c = "?" -> <<"%","3","F">> [] OTHER -> <<c>>
        Search(term) ==
            IF term = <<>> THEN Rest(current_category, seen_urls)
            ELSE <<[url |-> <<"h","t","t","p","s",":","/","/","w","w","w",".","g","o","o","g","l","e",".","c","o","m","/","s","e","a","r","c","h","?","q","=">>
                            \o Pieces([k \in 1..Len(term) |-> Quote(term[k])], 1, Len(term)),
                    typ |-> "search", term |-> term]>>
                 \o Rest(current_category, seen_urls)
        Line(line) ==
            IF Upper(RstripColons(line)) \in CATEGORIES /\ EndsWith(line, <<":">>)
            THEN Rest(Upper(RstripColons(line)), seen_urls)
            ELSE IF line = <<>> \/ Lower(line) \in {<<"x","x">>, <<"-","-","-">>}
            THEN Rest(current_category, seen_urls)
            ELSE IF /\ category_filter # None /\ category_filter # <<>>
                    /\ current_category # Upper(category_filter)
            THEN Rest(current_category, seen_urls)
            ELSE IF StartsWith(line, <<"\"">>) /\ EndsWith(line, <<"\"">>) /\ Len(line) > 2
            THEN Search(Strip(SubSeq(line, 2, Len(line) - 1)))
            ELSE IF StartsWith(line, <<"h","t","t","p",":","/","/">>) \/ StartsWith(line, <<"h","t","t","p","s",":","/","/">>)
            THEN IF line \notin seen_urls
                 THEN <<[url |-> line, typ |-> "url", term |-> None]>>
                      \o Rest(current_category, seen_urls \cup {line})
                 ELSE Rest(current_category, seen_urls)
            ELSE Rest(current_category, seen_urls)
    IN IF i > Len(lines) THEN <<>> ELSE Line(Strip(lines[i]))

\* parse_raw_links_with_categories without the category filter
parse_raw_links_with_categories_unfiltered(content, category_filter) ==
    LET IsSearch(item) == item.typ = "search"
        Parsed(items) ==
            [items |-> [k \in 1..Len(items) |-> <<items[k].url, items[k].typ>>],
             search_topics |-> [k \in 1..Len(SelectSeq(items, IsSearch)) |->
                                    SelectSeq(items, IsSearch)[k].term]]
        splitlines ==
            IF content = <<>> THEN <<>>
            ELSE IF content[Len(content)] = NewLine
            THEN SubSeq(SplitLines(content), 1, Len(SplitLines(content)) - 1)
            ELSE SplitLines(content)
    IN Parsed(ParseRawLines(splitlines, 1, None, None, {}))

\* parse_raw_links_with_categories(content, category_filter): [items, search_topics]
parse_raw_links_with_categories(content, category_filter) ==
    LET IsSearch(item) == item.typ = "search"
        Parsed(items) ==
            [items |-> [k \in 1..Len(items) |-> <<items[k].url, items[k].typ>>],
             search_topics |-> [k \in 1..Len(SelectSeq(items, IsSearch)) |->
                                    SelectSeq(items, IsSearch)[k].term]]
        splitlines ==
            IF content = <<>> THEN <<>>
            ELSE IF content[Len(content)] = NewLine
            THEN SubSeq(SplitLines(content), 1, Len(SplitLines(content)) - 1)
            ELSE SplitLines(content)
    IN Parsed(ParseRawLines(splitlines, 1, category_filter, None, {}))

\* extract_urls_only without the test of the type of an item
extract_urls_only_all_items(content) ==
    LET Only(parsed) ==
            [urls |-> [k \in 1..Len(parsed.items) |-> parsed.items[k][1]],
             events |-> IF parsed.search_topics # <<>>
                        THEN <<PrintEvent("extract_urls_only",
                                          "Topics to research (excluded from output)")>>
                        ELSE <<>>]
    IN Only(parse_raw_links_with_categories(content, None))

\* extract_urls_only(content): [urls, events]
extract_urls_only(content) ==
    LET IsUrl(item) == item[2] = "url"
        Only(parsed) ==
            [urls |-> [k \in 1..Len(SelectSeq(parsed.items, IsUrl)) |->
                            SelectSeq(parsed.items, IsUrl)[k][1]],
             events |-> IF parsed.search_topics # <<>>
                        THEN <<PrintEvent("extract_urls_only",
                                          "Topics to research (excluded from output)")>>
                        ELSE <<>>]
    IN Only(parse_raw_links_with_categories(content, None))

\* main() of open_links_in_chrome.py that gives up at the first item Chrome
\* could not open
open_links_in_chrome_main_stop_on_failure(args, content, fails) ==
    LET by == "open_links_in_chrome.main"
        Opened(items) ==
            EventsOf([i \in 1..Len(items) |->
                        [events |->
                            IF \E j \in 1..(i - 1) : j \in fails THEN <<>>
                            ELSE <<[ev |-> "open", by |-> "open_in_chrome",
                                    url |-> items[i][1], ok |-> i \notin fails]>>
                                 \o (IF i < Len(items) /\ i \notin fails
                                     THEN <<SleepEvent(by, args.delay)>> ELSE <<>>)]], 1)
        Parsed(parsed) ==
            IF parsed.items = <<>>
            THEN [exit |-> 0, items |-> <<>>,
                  events |-> <<PrintEvent(by, "No URLs or search terms found.")>>]
            ELSE [exit |-> 0, items |-> parsed.items,
                  events |-> <<PrintEvent(by, "Opening items")>> \o Opened(parsed.items)
                             \o <<PrintEvent(by, "Done.")>>]
    IN Parsed(parse_raw_links_with_categories(content, args.category))

\* main() of open_links_in_chrome.py with the arguments args on the RAW_LINKS
\* file of text content (args.exists: the file is there); fails holds the
\* positions of the items for which the open command ends with a status
\* other than 0 (CalledProcessError): [exit, items, events]. The delay is
\* counted in tenths of a second.
open_links_in_chrome_main(args, content, fails) ==
    LET by == "open_links_in_chrome.main"
        open_in_chrome(url, failed) ==
            <<[ev |-> "open", by |-> "open_in_chrome", url |-> url, ok |-> ~failed]>>
            \o (IF failed THEN <<PrintEvent("open_in_chrome", "Error opening")>> ELSE <<>>)
        generate_html_launcher(items) ==
            <<WriteEvent("generate_html_launcher", args.input \o <<"-","l","a","u","n","c","h","e","r",".","h","t","m","l">>,
                         JoinWith([k \in 1..Len(items) |-> items[k][1]], <<","," ">>)),
              PrintEvent("generate_html_launcher", "Saved HTML launcher")>>
        Preview(parsed) ==
            [k \in 1..Len(parsed.items) |-> PrintEvent(by, parsed.items[k][2])]
            \o (IF parsed.search_topics # <<>> THEN <<PrintEvent(by, "Search topics")>>
                ELSE <<>>)
        Opened(items) ==
            EventsOf([i \in 1..Len(items) |->
                        [events |-> open_in_chrome(items[i][1], i \in fails)
                                    \o (IF i < Len(items)
                                        THEN <<SleepEvent(by, args.delay)>> ELSE <<>>)]], 1)
        Parsed(parsed) ==
            IF parsed.items = <<>>
            THEN [exit |-> 0, items |-> <<>>,
                  events |-> <<PrintEvent(by, "No URLs or search terms found.")>>
                             \o (IF args.category # None /\ args.category # <<>>
                                 THEN <<PrintEvent(by, "(Category filter)")>> ELSE <<>>)]
            ELSE [exit |-> 0, items |-> parsed.items,
                  events |-> <<PrintEvent(by, "Opening items")>>
                             \o (IF args.output_html THEN generate_html_launcher(parsed.items)
                                 ELSE <<>>)
                             \o (IF args.dry_run THEN Preview(parsed)
                                 ELSE Opened(parsed.items) \o <<PrintEvent(by, "Done.")>>)]
    IN IF ~args.exists
       THEN [exit |-> 1, items |-> <<>>, events |-> <<PrintEvent(by, "Error: File not found")>>]
       ELSE Parsed(parse_raw_links_with_categories(content, args.category))

---------------------------------------------------------------------------
(* Specification SpecRaw: one call on a RAW_LINKS text of a few lines      *)

MaxLines == 3

\* lines of a RAW_LINKS file: URLs (one of them indented, one with white
\* space after it), a search term, a category header, a blank line, the two
\* markers, and a line that holds a URL after other words
RawLineKinds ==
    {<<"h","t","t","p","s",":","/","/","a",".","c","o","m","/","x">>, <<" "," ","h","t","t","p","s",":","/","/","a",".","c","o","m","/","x">>, <<"h","t","t","p",":","/","/","b",".","o","r","g">> \o <<" ", "\t">>,
     <<"\"","g","p","t"," ","5"," ","&"," ","r","u","m","o","r","s","\"">>, <<"L","L","M","S",":">>, <<>>, <<"x","x">>, <<"-","-","-">>, <<"s","e","e"," ","h","t","t","p","s",":","/","/","c",".","i","o">>}

RawTexts ==
    {JoinWith(lines, <<NewLine>>) :
        lines \in UNION {[1..n -> RawLineKinds] : n \in 0..MaxLines}}

ExtractUrlsOnly(content, result) ==
    /\ pc = "idle"
    /\ pc' = "done"
    /\ call' = [fn |-> "extract_urls_only", content |-> content]
    /\ ret' = [urls |-> result.urls]
    /\ log' = log \o result.events
    /\ UNCHANGED <<unique_urls, markdown_links, doc, content_len, weekly_dir>>

\* the texts and the filters of a call with a category filter: a URL, a
\* search term, two headers of a category and a line that ends with a colon
\* without naming one
MaxFiltered == 4

FilteredLineKinds ==
    {<<"h","t","t","p","s",":","/","/","a",".","c","o","m","/","x">>, <<"\"","g","p","t"," ","5"," ","&"," ","r","u","m","o","r","s","\"">>, <<"L","L","M","S",":">>, <<"a","g","e","n","t","s",":">>, <<"N","e","w","s",":">>}

FilteredTexts ==
    {JoinWith(lines, <<NewLine>>) :
        lines \in UNION {[1..n -> FilteredLineKinds] : n \in 0..MaxFiltered}}

CategoryFilters == {<<"L","L","M","s">>, <<"A","G","E","N","T","S">>, <<"n","e","w","s">>}

ParseRawLinksWithCategories(content, category_filter, result) ==
    /\ pc = "idle"
    /\ pc' = "done"
    /\ call' = [fn |-> "parse_raw_links_with_categories", content |-> content,
                category_filter |-> category_filter]
    /\ ret' = result
    /\ UNCHANGED <<log, unique_urls, markdown_links, doc, content_len, weekly_dir>>

\* the RAW_LINKS files that are opened, the arguments, and the items Chrome
\* fails to open
MaxItems == 3

OpenTexts ==
    {<<>>, <<"x","x">>,
     JoinWith(<<<<"h","t","t","p","s",":","/","/","a",".","c","o","m","/","x">>>>, <<NewLine>>),
     JoinWith(<<<<"L","L","M","S",":">>, <<"h","t","t","p","s",":","/","/","a",".","c","o","m","/","x">>, <<"\"","g","p","t"," ","5"," ","&"," ","r","u","m","o","r","s","\"">>, <<"h","t","t","p",":","/","/","b",".","o","r","g">>>>,
              <<NewLine>>),
     JoinWith(<<<<"h","t","t","p",":","/","/","b",".","o","r","g">>, <<"a","g","e","n","t","s",":">>, <<"h","t","t","p","s",":","/","/","a",".","c","o","m","/","x">>, <<"L","L","M","S",":">>,
                <<"\"","g","p","t"," ","5"," ","&"," ","r","u","m","o","r","s","\"">>, <<"h","t","t","p","s",":","/","/","a",".","c","o","m","/","x">>>>, <<NewLine>>)}

OpenArgs ==
    [input : {<<"R","A","W","_","L","I","N","K","S","/","2","0","2","6","-","0","1","-","2","9">>}, exists : BOOLEAN, category : {None, <<"L","L","M","s">>},
     dry_run : BOOLEAN, output_html : BOOLEAN, delay : {0, 10, 50}]

OpenLinksInChromeMain(args, content, fails, result) ==
    /\ pc = "idle"
    /\ pc' = "done"
    /\ call' = [fn |-> "open_links_in_chrome.main", args |-> args, content |-> content,
                fails |-> fails]
    /\ ret' = [exit |-> result.exit, items |-> result.items]
    /\ log' = log \o result.events
    /\ UNCHANGED <<unique_urls, markdown_links, doc, content_len, weekly_dir>>

NextRaw ==
    \/ \E content \in RawTexts : ExtractUrlsOnly(content, extract_urls_only(content))
    \/ \E content \in FilteredTexts, category_filter \in CategoryFilters :
            ParseRawLinksWithCategories(content, category_filter,
                parse_raw_links_with_categories(content, category_filter))
    \/ \E args \in OpenArgs, content \in OpenTexts, fails \in SUBSET (1..MaxItems) :
            OpenLinksInChromeMain(args, content, fails,
                                  open_links_in_chrome_main(args, content, fails))

SpecRaw == InitTitle /\ [][NextRaw]_vars

\* the lines of a text, as str.split("\n") gives them, that begin with
\* http:// or https:// once trimmed is applied to them, each once, in the
\* order of first appearance
UrlLines(text, trimmed) ==
    LET lines == SplitLines(text)
        Of(k) == IF trimmed THEN Strip(lines[k]) ELSE lines[k]
        IsUrl(s) == StartsWith(s, <<"h","t","t","p",":","/","/">>) \/ StartsWith(s, <<"h","t","t","p","s",":","/","/">>)
        Firsts(urls) == {k \in urls : \A j \in urls : j < k => Of(j) # Of(k)}
        Ordered(firsts) ==
            [n \in 1..Cardinality(firsts) |->
                Of(CHOOSE k \in firsts : Cardinality({j \in firsts : j < k}) = n - 1)]
    IN Ordered(Firsts({k \in 1..Len(lines) : IsUrl(Of(k))}))

\* C20 as stated: extract_urls_only returns exactly the distinct lines of the
\* RAW_LINKS text that begin with http:// or https://, each once, in order of
\* first appearance.
C20_UrlLinesAsWritten ==
    (pc = "done" /\ call.fn = "extract_urls_only") =>
        ret.urls = UrlLines(call.content, FALSE)

\* C20 amended: extract_urls_only returns exactly the distinct lines of the
\* RAW_LINKS text that begin with http:// or https:// once the white space
\* around them is removed, without that white space, each once, in order of
\* first appearance; quoted search terms, category headers, blank lines, the
\* markers xx and --- and lines that hold a URL after other words contribute
\* nothing.
C20_TrimmedUrlLines ==
    (pc = "done" /\ call.fn = "extract_urls_only") =>
        ret.urls = UrlLines(call.content, TRUE)

\* an indented URL that repeats the URL of the line before, after a search
\* term: one URL is returned
C20_Witness ==
    /\ pc = "done"
    /\ call.fn = "extract_urls_only"
    /\ call.content = JoinWith(<<<<"\"","g","p","t"," ","5"," ","&"," ","r","u","m","o","r","s","\"">>, <<"h","t","t","p","s",":","/","/","a",".","c","o","m","/","x">>,
                                 <<" "," ","h","t","t","p","s",":","/","/","a",".","c","o","m","/","x">>>>, <<NewLine>>)
    /\ ret.urls = <<<<"h","t","t","p","s",":","/","/","a",".","c","o","m","/","x">>>>
    /\ Len(log) = 1


\* the items a category filter selects from a text, read from the text line
\* by line: the lines that follow a header of the category with no other
\* header in between, the URLs among them once each and the quoted terms, in
\* the order of the lines; a URL item as <<url, "url">>, a search item as
\* <<term, "search">>
UnderCategory(text, category_filter) ==
    LET Upper(s) == [k \in 1..Len(s) |-> UpperChar(s[k])]
        IsUrl(s) == StartsWith(s, <<"h","t","t","p",":","/","/">>) \/ StartsWith(s, <<"h","t","t","p","s",":","/","/">>)
        IsSearch(s) ==
            /\ Len(s) > 2
            /\ s[1] = "\"" /\ s[Len(s)] = "\""
            /\ Strip(SubSeq(s, 2, Len(s) - 1)) # <<>>
        Item(s) ==
            IF IsSearch(s) THEN <<Strip(SubSeq(s, 2, Len(s) - 1)), "search">>
            ELSE <<s, "url">>
        Ordered(line, kept) ==
            [n \in 1..Cardinality(kept) |->
                Item(line[CHOOSE k \in kept : Cardinality({j \in kept : j < k}) = n - 1])]
        Kept(line, selected) ==
            Ordered(line,
                    {k \in selected :
                        \/ IsSearch(line[k])
                        \/ IsUrl(line[k]) /\ \A j \in selected : j < k => line[j] # line[k]})
        Selected(line, headers, wanted) ==
            Kept(line,
                 {k \in 1..Len(line) :
                    /\ k \notin headers
                    /\ \E h \in wanted : h < k /\ \A j \in (h + 1)..(k - 1) : j \notin headers})
        Headers(line, upper, wanted) ==
            Selected(line,
                     {k \in 1..Len(line) : upper[k] \in {c \o <<":">> : c \in CATEGORIES}},
                     {k \in 1..Len(line) :
                        /\ upper[k] \in {c \o <<":">> : c \in CATEGORIES}
                        /\ upper[k] = wanted})
        Lines(line) ==
            Headers(line, [k \in 1..Len(line) |-> Upper(line[k])],
                    Upper(category_filter) \o <<":">>)
        Split(lines) == Lines([k \in 1..Len(lines) |-> Strip(lines[k])])
    IN Split(SplitLines(text))

\* what a call returned, a search item shown by its term
ReturnedItems(result) ==
    LET Searches(n) == Cardinality({k \in 1..n : result.items[k][2] = "search"})
    IN [n \in 1..Len(result.items) |->
            IF result.items[n][2] = "search"
            THEN <<result.search_topics[Searches(n)], "search">>
            ELSE result.items[n]]

\* C21: with a category filter, parse_raw_links_with_categories returns
\* exactly the URL and search items under a header of that category, the
\* category compared without regard to case: items before every header or
\* under another category are left out, the URL of a search item is the
\* Google search for its term, and a URL is returned even if it stood earlier
\* under a category that is left out.
C21_FilterSelectsCategory ==
    (pc = "done" /\ call.fn = "parse_raw_links_with_categories") =>
        /\ ReturnedItems(ret) = UnderCategory(call.content, call.category_filter)
        /\ Len(ret.search_topics)
             = Cardinality({k \in 1..Len(ret.items) : ret.items[k][2] = "search"})
        /\ \A k \in 1..Len(ret.items) :
             ret.items[k][2] = "search" =>
                StartsWith(ret.items[k][1], <<"h","t","t","p","s",":","/","/","w","w","w",".","g","o","o","g","l","e",".","c","o","m","/","s","e","a","r","c","h","?","q","=">>)

\* the filter LLMs on a text whose URL stands under agents: and again under
\* LLMS:, after a URL that precedes every header: the URL is returned once
C21_Witness ==
    /\ pc = "done"
    /\ call.fn = "parse_raw_links_with_categories"
    /\ call.category_filter = <<"L","L","M","s">>
    /\ call.content = JoinWith(<<<<"a","g","e","n","t","s",":">>, <<"h","t","t","p","s",":","/","/","a",".","c","o","m","/","x">>, <<"L","L","M","S",":">>,
                                 <<"h","t","t","p","s",":","/","/","a",".","c","o","m","/","x">>>>, <<NewLine>>)
    /\ ret.items = <<<<<<"h","t","t","p","s",":","/","/","a",".","c","o","m","/","x">>, "url">>>>


\* C25: open_links_in_chrome.main (no dry run) attempts to open every item,
\* in the order of the list, whether or not an earlier open failed, and
\* waits the delay between every two consecutive attempts and not after the
\* last: n items give n attempts and n - 1 waits, an attempt and a wait in
\* turn.
C25_OpensAllWithDelays ==
    (/\ pc = "done"
     /\ call.fn = "open_links_in_chrome.main"
     /\ call.args.exists
     /\ ~call.args.dry_run) =>
        LET IsStep(e) == e.ev \in {"open", "sleep"}
            Steps(steps) ==
                /\ Len(steps) = IF ret.items = <<>> THEN 0 ELSE 2 * Len(ret.items) - 1
                /\ \A k \in 1..Len(steps) :
                    IF k % 2 = 1
                    THEN /\ steps[k].ev = "open"
                         /\ steps[k].url = ret.items[(k + 1) \div 2][1]
                         /\ steps[k].ok = ((k + 1) \div 2 \notin call.fails)
                    ELSE /\ steps[k].ev = "sleep"
                         /\ steps[k].tenths = call.args.delay
        IN Steps(SelectSeq(log, IsStep))

\* three items of which Chrome fails to open the first two: three attempts
\* and two waits of five seconds
C25_Witness ==
    /\ pc = "done"
    /\ call.fn = "open_links_in_chrome.main"
    /\ call.args.exists /\ ~call.args.dry_run /\ call.args.delay = 50
    /\ call.fails = {1, 2}
    /\ Len(ret.items) = 3
    /\ Cardinality({k \in 1..Len(log) : log[k].ev = "open"}) = 3
    /\ Cardinality({k \in 1..Len(log) : log[k].ev = "open" /\ ~log[k].ok}) = 2
    /\ Cardinality({k \in 1..Len(log) : log[k].ev = "sleep"}) = 2

=============================================================================
